---- MODULE Spec2Model ----
(***************************************************************************)
(* MIDL MCP server: the tool adapters (ToolBase.run and every tool's       *)
(* execute), the two wallet clients and the upstream collaborators they    *)
(* call (EVM RPC, mempool / runes / explorer HTTP APIs, the MIDL SDK).     *)
(*                                                                         *)
(* One tool invocation is a small process: ToolBase.run validates the raw  *)
(* input, execute runs up to its next await, the upstream answers, execute *)
(* resumes, ... until an envelope is returned.  Every delegated call is    *)
(* logged in `calls` when it is issued and marked when it is answered.     *)
(***************************************************************************)
EXTENDS Integers, Sequences, FiniteSets, TLC

VARIABLES
  pc,                 \* "idle" | "await" | "done": position of the invocation
  tool,               \* name of the tool being run (config.name), "none" if idle
  input,              \* the raw input handed to ToolBase.run
  st,                 \* await point inside execute at which the tool is suspended
  loc,                \* local variables of execute and of the wallet methods it calls
  calls,              \* delegated calls issued by this invocation, in issue order
  env,                \* the envelope ToolBase.run resolved to (NoEnv until done)
  executed,           \* TRUE once ToolBase.run has invoked execute
  rejected,           \* TRUE if the promise returned by ToolBase.run rejected
  threw,              \* TRUE if an exception left execute
  btcWalletInstance,  \* module-level cache of utils/wallet-addresses
  process_env,        \* process.env: MIDL_PRIVATE_KEY, MIDL_NETWORK, MCP_TRANSPORT
  main,               \* position of main(): "startup" | "serving" | "exited"
  exitCode,           \* argument of process.exit, -1 while the process runs
  sharedWallet,       \* module-level wallet of index.ts: "undefined" or its network name
  transports,         \* transports started so far (stdio transport, HTTP listener)
  registered,         \* tool names registered with the MCP server
  prev,               \* history: the previous invocation as SpecRepeat records it
  response,           \* the CallToolResult the registered handler resolved to
  chainNonce,         \* environment: transaction count of the wallet's EVM account
  deployments,        \* history: deployments submitted, with the nonce each reported
  http                \* the /mcp request handler of startHttp: its position and resources

vars == <<pc, tool, input, st, loc, calls, env, executed, rejected, threw, btcWalletInstance,
          process_env, main, exitCode, sharedWallet, transports, registered, prev, response,
          chainNonce, deployments, http>>

----------------------------------------------------------------------------
(* Bounds *)

\* largest block height / tip height an upstream reports
MaxHeight == 2
\* largest EVM balance (in wei) an upstream reports
MaxBalance == 1
\* largest account nonce an upstream reports
MaxNonce == 1
\* number of distinct BTC transactions finalizeBTCTransaction can build
MaxTxId == 2
\* number of deployments followed on the chain
MaxDeployments == 2
\* number of /mcp requests followed over HTTP
MaxRequests == 2

----------------------------------------------------------------------------
(* Lexical classes of string arguments.  A string argument is described by *)
(* its format and its length, which is all the zod schemas look at.        *)

Txt(f, n) == [fmt |-> f, len |-> n]

Absent      == Txt("absent", 0)        \* property not present in the raw input
EvmAddr     == Txt("evm", 42)          \* 0x + 40 hex digits
Bech32Addr  == Txt("bech32", 44)       \* bcrt1... / bc1... / tb1...
TaprootAddr == Txt("bech32", 64)       \* bcrt1p... (P2TR)
LegacyAddr  == Txt("legacy", 34)       \* base58 P2PKH address
JunkShort   == Txt("junk", 5)          \* "hello"
JunkMid     == Txt("junk", 30)         \* 30 characters that are no address
JunkLong    == Txt("junk", 95)
Hex64       == Txt("hex", 64)          \* 64 hex digits (BTC txid)
Junk64      == Txt("junk", 64)         \* 64 characters, not hex
Hash0x64    == Txt("0xhex", 66)        \* 0x + 64 hex digits (EVM tx hash)
RuneId      == Txt("runeid", 8)        \* "840000:1"
SignedTx    == Txt("0xhex", 200)       \* 0x + hex digits

\* /^0x[a-fA-F0-9]{40}$/
IsEvmAddress(a) == a.fmt = "evm" /\ a.len = 42
\* /^(bc1|tb1|bcrt1)[a-zA-HJ-NP-Z0-9]{25,87}$/
IsBtcAddressRegex(a) == a.fmt = "bech32" /\ a.len >= 28 /\ a.len <= 92
\* z.string().min(lo).max(hi)
IsStringOfLen(a, lo, hi) == a.fmt # "absent" /\ a.len >= lo /\ a.len <= hi
\* /^[a-fA-F0-9]{64}$/
IsHex64(a) == a.fmt = "hex" /\ a.len = 64
\* /^0x[a-fA-F0-9]{64}$/
IsHash0x64(a) == a.fmt = "0xhex" /\ a.len = 66
\* /^\d+:\d+$/
IsRuneId(a) == a.fmt = "runeid"
\* a public key as hex text: with or without 0x, of 33 or 65 bytes; point
\* names the curve point it encodes, 0 if its bytes encode no point
PublicKeyHex(prefixed, bytes, point) ==
  [fmt |-> IF prefixed THEN "0xhex" ELSE "hex",
   len |-> 2 * bytes + (IF prefixed THEN 2 ELSE 0),
   point |-> point]
PubKey33    == PublicKeyHex(FALSE, 33, 1)   \* compressed public key, on the curve
PubKey33Bad == PublicKeyHex(FALSE, 33, 0)   \* 33 bytes of hex that are no curve point
PubKey65    == PublicKeyHex(FALSE, 65, 1)   \* uncompressed public key
\* /^(0x)?[a-fA-F0-9]{66}$|^(0x)?[a-fA-F0-9]{130}$/
IsPublicKey(a) ==
  \/ a.fmt = "hex" /\ a.len \in {66, 130}
  \/ a.fmt = "0xhex" /\ a.len \in {68, 132}
\* /^0x[a-fA-F0-9]+$/
IsSignedTx(a) == a.fmt = "0xhex" /\ a.len > 2

\* an address the caller supplied that is lexically no address of any kind
SyntacticallyInvalid(a) == a.fmt = "junk"

----------------------------------------------------------------------------
(* Envelopes (types.ts: ToolResponse, success, error) *)

NoData == [none |-> TRUE]
NoEnv  == [success |-> FALSE, code |-> "NONE", details |-> "none", suggestion |-> FALSE, data |-> NoData]

ErrorCode == {"INSUFFICIENT_FUNDS", "INVALID_ADDRESS", "RPC_TIMEOUT", "RPC_CONNECTION_FAILED",
              "TX_REVERTED", "GAS_ESTIMATION_FAILED", "CONTRACT_NOT_FOUND", "INVALID_ABI",
              "FUNCTION_NOT_FOUND", "INVALID_PRIVATE_KEY", "RUNE_NOT_FOUND", "BRIDGE_PENDING",
              "UNKNOWN_ERROR"}

\* every code of ErrorCode has a default suggestion in ErrorSuggestion
ErrorSuggestion == ErrorCode

success(data) == [success |-> TRUE, code |-> "NONE", details |-> "none", suggestion |-> FALSE, data |-> data]

errorWith(code, details, suggestion) ==
  [success |-> FALSE, code |-> code, details |-> details,
   suggestion |-> (suggestion \/ code \in ErrorSuggestion), data |-> NoData]

error(code) == errorWith(code, "none", FALSE)

\* payload values: a type tag and, for strings that matter, the text
Str      == [t |-> "string", v |-> ""]
Lit(s)   == [t |-> "string", v |-> s]
NumStr   == [t |-> "string", v |-> "numeral"]   \* bigint.toString()
Num      == [t |-> "number", v |-> ""]
Bool     == [t |-> "boolean", v |-> ""]
Null     == [t |-> "null", v |-> ""]
Arr      == [t |-> "array", v |-> ""]
Obj      == [t |-> "object", v |-> ""]
Unknown  == [t |-> "unknown", v |-> ""]
NumOf(n)  == [t |-> "number", v |-> n]
BoolOf(b) == [t |-> "boolean", v |-> b]

----------------------------------------------------------------------------
(* Upstream answers *)

Ok(v, w)  == [res |-> "ok", status |-> 200, msg |-> "", v |-> v, w |-> w]
Http(s)   == [res |-> "status", status |-> s, msg |-> "", v |-> 0, w |-> 0]
Thrown(m) == [res |-> "throw", status |-> 0, msg |-> m, v |-> 0, w |-> 0]
NoAnswer  == [res |-> "none", status |-> 0, msg |-> "", v |-> 0, w |-> 0]

\* error messages an upstream call can reject with
MsgNetwork      == "fetch failed"
MsgInsufficient == "insufficient funds for gas * price + value"
MsgReverted     == "execution reverted"
MsgNotConnected == "BTC wallet not connected - payment address unavailable"

\* String.prototype.includes on the messages above
Includes(msg, needle) ==
  <<msg, needle>> \in {<<MsgInsufficient, "insufficient funds">>,
                       <<MsgInsufficient, "insufficient">>,
                       <<MsgReverted, "execution reverted">>}

----------------------------------------------------------------------------
(* Amount strings: a decimal numeral n / 10^d ("num"), a decimal numeral     *)
(* followed by other characters ("prefix", as in "1abc"), or other text     *)

Amt(kind, n, d) == [kind |-> kind, n |-> n, d |-> d]
NoAmount == Amt("absent", 0, 0)

RECURSIVE Pow10(_)
Pow10(e) == IF e <= 0 THEN 1 ELSE 10 * Pow10(e - 1)

SATOSHIS_PER_BTC == Pow10(8)

\* isNaN(parseFloat(s)): parseFloat reads the longest numeric prefix
IsNaNFloat(a) == a.kind \notin {"num", "prefix"}
\* Math.floor(parseFloat(s) * SATOSHIS_PER_BTC)
FloorBtcToSat(a) == (a.n * SATOSHIS_PER_BTC * Pow10(0 - a.d)) \div Pow10(a.d)
\* BigInt(s) throws a SyntaxError unless s is an integer numeral
BigIntThrows(a) == a.kind # "num" \/ a.d > 0
\* viem parseEther / parseUnits throw on text that is no decimal numeral
ParseUnitsThrows(a) == a.kind # "num"

----------------------------------------------------------------------------
(* Delegated calls and continuations *)

\* a wei amount, kept as whole satoshis (10^10 wei each) plus a remainder
Wei(sat, rem) == [sat |-> sat, rem |-> rem]

NoParams == [kind |-> "none", satoshis |-> 0, value |-> Wei(0, 0), recipient |-> Absent]

\* the BTC transaction finalizeBTCTransaction returns as btcTx.tx: its id and
\* its hex serialisation, both standing for transaction number n
BtcTx(n) == [id |-> n, hex |-> n + MaxTxId]
NoBtcTx == [id |-> 0, hex |-> 0]

\* a delegated call; batch is the number of calls issued before it, ans the
\* answer the upstream gave to it
Call(op, target) ==
  [op |-> op, target |-> target, params |-> NoParams, res |-> "pending", batch |-> 0, ans |-> NoAnswer]
CallWith(op, target, params) ==
  [op |-> op, target |-> target, params |-> params, res |-> "pending", batch |-> 0, ans |-> NoAnswer]

\* process.env as far as the server reads it; "" is an unset (or empty) variable
ProcessEnv(key, network, transport) ==
  [MIDL_PRIVATE_KEY |-> key, MIDL_NETWORK |-> network, MCP_TRANSPORT |-> transport]
NoProcessEnv == ProcessEnv(Absent, "", "")

\* the local variables of one invocation; penv is process.env as execute sees
\* it when it runs, envRead the variables it has read from it, instSeen the
\* value of btcWalletInstance it found if it consulted the cache
Loc0(inst) == [inst |-> inst, wallet |-> "none", address |-> Absent, satoshis |-> 0,
               confirmed |-> FALSE, height |-> 0, confirmations |-> 0, tipFailed |-> FALSE,
               nonce |-> 0, params |-> NoParams, penv |-> NoProcessEnv, envRead |-> {},
               instSeen |-> "none", btcTx |-> NoBtcTx]

\* execute is suspended at await point s, having issued the calls ops
Await(ops, s, l) == [k |-> "await", ops |-> ops, st |-> s, loc |-> l, env |-> NoEnv, msg |-> ""]
\* execute returned the envelope e
Ret(e, l)        == [k |-> "ret", ops |-> <<>>, st |-> "end", loc |-> l, env |-> e, msg |-> ""]
\* an exception with message m left execute
Throw(m, l)      == [k |-> "throw", ops |-> <<>>, st |-> "end", loc |-> l, env |-> NoEnv, msg |-> m]

HttpErrors == {Http(404), Http(500)}
RpcErrors  == {Thrown(MsgNetwork), Thrown(MsgInsufficient), Thrown(MsgReverted)}
SdkErrors  == {Thrown(MsgNetwork), Thrown(MsgInsufficient)}

\* what the upstream can answer to a call
Answers(c) ==
  CASE c.op = "fetch" /\ c.target = "mempool/tx" ->
         {Ok(0, 0)} \cup {Ok(1, h) : h \in 0..MaxHeight} \cup HttpErrors \cup {Thrown(MsgNetwork)}
    [] c.op = "fetch" /\ c.target = "mempool/tip" ->
         {Ok(h, 0) : h \in 1..MaxHeight} \cup HttpErrors \cup {Thrown(MsgNetwork)}
    [] c.op = "fetch" /\ c.target = "runes/balance" ->
         {Ok(b, 0) : b \in 0..MaxBalance} \cup HttpErrors \cup {Thrown(MsgNetwork)}
    [] c.op = "fetch" ->
         {Ok(0, 0)} \cup HttpErrors \cup {Thrown(MsgNetwork)}
    [] c.op = "getBalance" ->
         {Ok(b, 0) : b \in 0..MaxBalance} \cup RpcErrors
    [] c.op = "getTransactionCount" ->
         {Ok(n, 0) : n \in 0..MaxNonce} \cup RpcErrors
    [] c.op = "finalizeBTCTransaction" ->
         {Ok(BtcTx(n).id, BtcTx(n).hex) : n \in 1..MaxTxId} \cup SdkErrors
    [] c.op = "waitForTransactionReceipt" ->
         {Ok(1, 0), Ok(0, 0)} \cup RpcErrors
    [] c.op = "getTransactionReceipt" ->
         {Ok(1, 0), Ok(0, 0), Ok(-1, 0)} \cup RpcErrors
    [] c.op = "getBlock" ->
         {Ok(0, 0), Ok(-1, 0)} \cup RpcErrors
    [] c.target = "rpc" ->
         {Ok(0, 0)} \cup RpcErrors
    [] OTHER ->
         {Ok(0, 0)} \cup SdkErrors

----------------------------------------------------------------------------
(* Configuration (config.ts) *)

NETWORKS == {"mainnet", "regtest"}
DEFAULT_NETWORK == "regtest"
DEFAULT_TRANSPORT == "stdio"
TOOL_PREFIX == "midl_"

\* process.env.MIDL_NETWORK || DEFAULT_NETWORK
NetworkName(penv) == IF penv.MIDL_NETWORK = "" THEN DEFAULT_NETWORK ELSE penv.MIDL_NETWORK
\* getNetworkConfig() throws when NETWORKS has no such key
getNetworkConfigThrows(penv) == NetworkName(penv) \notin NETWORKS
MsgInvalidNetwork == "Invalid MIDL_NETWORK"
MsgKeyRequired == "MIDL_PRIVATE_KEY environment variable is required"

\* getNetworkConfig() called while a request is handled: the read is noted
getNetworkConfig(l) == [l EXCEPT !.envRead = @ \cup {"MIDL_NETWORK"}]

\* getTransportMode(): "throws" unless stdio or http
getTransportMode(penv) ==
  LET transport == IF penv.MCP_TRANSPORT = "" THEN DEFAULT_TRANSPORT ELSE penv.MCP_TRANSPORT
  IN IF transport \in {"stdio", "http"} THEN transport ELSE "throws"

\* createBtcWalletFromEnv(): reads both variables; only a missing key throws
createBtcWalletFromEnvThrows(penv) == penv.MIDL_PRIVATE_KEY = Absent
createBtcWalletFromEnv(l) == [l EXCEPT !.envRead = @ \cup {"MIDL_PRIVATE_KEY", "MIDL_NETWORK"}]

----------------------------------------------------------------------------
(* MidlWalletClient (wallet.ts) *)

BalanceInfo == [address |-> Str, balance |-> Str, balanceFormatted |-> Str,
                network |-> Str, blockNumber |-> Num]

\* getBalance: publicClient.getBalance, then getBlockNumber, inside one try
MidlWalletClient_getBalance(s, l, r) ==
  CASE s = "start" ->
         Await(<<Call("getBalance", "rpc")>>, "getBalance", l)
    [] s = "getBalance" ->
         IF r.res = "ok"
         THEN Await(<<Call("getBlockNumber", "rpc")>>, "getBlockNumber", l)
         ELSE Ret(error("RPC_CONNECTION_FAILED"), l)
    [] s = "getBlockNumber" ->
         IF r.res = "ok"
         THEN Ret(success(BalanceInfo), l)
         ELSE Ret(error("RPC_CONNECTION_FAILED"), l)

----------------------------------------------------------------------------
(* Balance plugin *)

GetEvmBalanceTool_schema(in) ==
  in.wf /\ (in.address = Absent \/ IsEvmAddress(in.address))

\* resolveAddress(wallet, input.address, 'evm') never awaits: the provided
\* address or wallet.address
GetEvmBalanceTool_execute(s, in, l, r) ==
  MidlWalletClient_getBalance(s, [l EXCEPT !.address = IF in.address # Absent THEN in.address ELSE EvmAddr], r)

GetBtcBalanceTool_schema(in) ==
  in.wf /\ IsStringOfLen(in.address, 26, 90)

BtcBalanceInfo == [address |-> Str, balanceSatoshis |-> Str, balanceFormatted |-> Str,
                   confirmedSatoshis |-> Str, unconfirmedSatoshis |-> Str, network |-> Str]

GetBtcBalanceTool_execute(s, in, l, r) ==
  CASE s = "start" ->
         Await(<<Call("fetch", "mempool/address")>>, "fetch", l)
    [] s = "fetch" ->
         IF r.res = "status" THEN Ret(errorWith("RPC_CONNECTION_FAILED", "url", FALSE), l)
         ELSE IF r.res = "ok" THEN Ret(success(BtcBalanceInfo), l)
         ELSE Ret(error("RPC_CONNECTION_FAILED"), l)

GetTokenBalanceTool_schema(in) ==
  in.wf /\ IsEvmAddress(in.address) /\ IsEvmAddress(in.address2)

TokenBalanceInfo == [tokenAddress |-> Str, ownerAddress |-> Str, balance |-> Str,
                     balanceFormatted |-> Str, decimals |-> Num, symbol |-> Str,
                     name |-> Str, network |-> Str]

\* Promise.all over four readContract calls: all four are issued at once
GetTokenBalanceTool_execute(s, in, l, r) ==
  CASE s = "start" ->
         Await(<<Call("readContract", "rpc"), Call("readContract", "rpc"),
                 Call("readContract", "rpc"), Call("readContract", "rpc")>>, "readAll", l)
    [] s = "readAll" ->
         IF r.res = "ok" THEN Ret(success(TokenBalanceInfo), l)
         ELSE IF Includes(r.msg, "execution reverted") \/ Includes(r.msg, "not a contract")
              THEN Ret(errorWith("CONTRACT_NOT_FOUND", "tokenAddress", FALSE), l)
              ELSE Ret(error("RPC_CONNECTION_FAILED"), l)

----------------------------------------------------------------------------
(* utils/wallet-addresses: the cached BTC wallet and default addresses *)

\* a sub-procedure finished normally; its results are in l
Val(l) == [k |-> "val", ops |-> <<>>, st |-> "end", loc |-> l, env |-> NoEnv, msg |-> ""]

\* getBtcWallet, as used by getBtcPaymentAddress / getBtcOrdinalsAddress:
\* the instance is cached before connect() is awaited
getBtcWallet(s, l, r) ==
  CASE s = "start" ->
         IF l.inst = "null"
         THEN IF createBtcWalletFromEnvThrows(l.penv)
              THEN Throw(MsgKeyRequired, [createBtcWalletFromEnv(l) EXCEPT !.instSeen = l.inst])
              ELSE Await(<<Call("connect", "sdk")>>, "resolve",
                         [createBtcWalletFromEnv(l) EXCEPT !.inst = "unconnected",
                                                           !.instSeen = l.inst])
         ELSE IF l.inst = "connected"
              THEN Val([l EXCEPT !.address = Bech32Addr, !.instSeen = l.inst])
              ELSE Throw(MsgNotConnected, [l EXCEPT !.instSeen = l.inst])
    [] s = "resolve" ->
         IF r.res = "ok"
         THEN Val([l EXCEPT !.inst = "connected", !.address = Bech32Addr])
         ELSE Throw(r.msg, l)

\* resolveAddress(wallet, provided, defaultType)
resolveAddress(s, provided, defaultType, l, r) ==
  IF s = "start" /\ provided # Absent THEN Val([l EXCEPT !.address = provided])
  ELSE IF s = "start" /\ defaultType = "evm" THEN Val([l EXCEPT !.address = EvmAddr])
  ELSE getBtcWallet(s, l, r)

----------------------------------------------------------------------------
(* Bitcoin plugin *)

GetUtxosTool_schema(in) ==
  in.wf /\ (in.address = Absent \/ IsStringOfLen(in.address, 26, 90))

GetUtxosResult == [address |-> Str, utxos |-> Arr, count |-> Num, totalValue |-> Num, network |-> Str]

\* resolveAddress is awaited before the try block is entered
GetUtxosTool_execute(s, in, l, r) ==
  CASE s \in {"start", "resolve"} ->
         LET a == resolveAddress(s, in.address, "btc-payment", l, r)
         IN IF a.k = "val" THEN Await(<<Call("fetch", "mempool/utxo")>>, "fetch", a.loc) ELSE a
    [] s = "fetch" ->
         IF r.res = "ok" THEN Ret(success(GetUtxosResult), l)
         ELSE Ret(error("RPC_CONNECTION_FAILED"), l)

GetTransactionTool_schema(in) ==
  in.wf /\ IsStringOfLen(in.id, 64, 64)

TxInfo == [txid |-> Str, version |-> Num, size |-> Num, weight |-> Num, fee |-> Num,
           status |-> Obj, vin |-> Arr, vout |-> Arr, explorerUrl |-> Str]

GetTransactionTool_execute(s, in, l, r) ==
  CASE s = "start" ->
         Await(<<Call("fetch", "mempool/tx")>>, "fetch", l)
    [] s = "fetch" ->
         IF r.res = "status" THEN Ret(error("CONTRACT_NOT_FOUND"), l)
         ELSE IF r.res = "ok" THEN Ret(success(TxInfo), l)
         ELSE Ret(error("RPC_CONNECTION_FAILED"), l)

GetTransactionReceiptTool_schema(in) ==
  in.wf /\ IsHash0x64(in.id)

ReceiptStatus(v) == IF v = 1 THEN Lit("success") ELSE Lit("reverted")

TxReceipt(v) == [transactionHash |-> Str, blockNumber |-> Num, status |-> ReceiptStatus(v),
                 gasUsed |-> NumStr, explorerUrl |-> Str]

ReceiptResult(v) == [transactionHash |-> Str, blockNumber |-> Num, status |-> ReceiptStatus(v),
                     gasUsed |-> NumStr, explorerUrl |-> Str, from |-> Str, to |-> Str,
                     contractAddress |-> Null, logs |-> Arr]

\* an answer Ok(-1, 0) stands for a null receipt / block
GetTransactionReceiptTool_execute(s, in, l, r) ==
  CASE s = "start" ->
         Await(<<Call("getTransactionReceipt", "rpc")>>, "getTransactionReceipt", l)
    [] s = "getTransactionReceipt" ->
         IF r.res # "ok" THEN Ret(error("RPC_CONNECTION_FAILED"), l)
         ELSE IF r.v = -1 THEN Ret(error("CONTRACT_NOT_FOUND"), l)
         ELSE Ret(success(ReceiptResult(r.v)), l)

EmptyStrict_schema(in) == in.wf

FeeRateResult == [fastestFee |-> Num, halfHourFee |-> Num, hourFee |-> Num,
                  economyFee |-> Num, minimumFee |-> Num, network |-> Str]

\* a fee lookup that fetches a second time when the first fetch fails
GetFeeRateTool_execute_retry(s, in, l, r) ==
  CASE s = "start" ->
         Await(<<Call("fetch", "mempool/fees")>>, "fetch", l)
    [] s = "fetch" ->
         IF r.res = "ok" THEN Ret(success(FeeRateResult), l)
         ELSE Await(<<Call("fetch", "mempool/fees")>>, "again", l)
    [] s = "again" ->
         IF r.res = "ok" THEN Ret(success(FeeRateResult), l)
         ELSE Ret(error("RPC_CONNECTION_FAILED"), l)

GetFeeRateTool_execute(s, in, l, r) ==
  CASE s = "start" ->
         Await(<<Call("fetch", "mempool/fees")>>, "fetch", l)
    [] s = "fetch" ->
         IF r.res = "ok" THEN Ret(success(FeeRateResult), l)
         ELSE Ret(error("RPC_CONNECTION_FAILED"), l)

----------------------------------------------------------------------------
(* Network plugin *)

NetworkInfo == [chainId |-> Num, name |-> Str, rpcUrl |-> Str, explorerUrl |-> Str,
                mempoolUrl |-> Str, blockNumber |-> Num]

GetNetworkInfoTool_execute(s, in, l, r) ==
  CASE s = "start" ->
         Await(<<Call("getBlockNumber", "rpc")>>, "getBlockNumber", l)
    [] s = "getBlockNumber" ->
         IF r.res = "ok" THEN Ret(success(NetworkInfo), l)
         ELSE Ret(error("RPC_CONNECTION_FAILED"), l)

\* the payload is the array of the system contracts itself
SystemContractsOutput == [array |-> Arr]

GetSystemContractsTool_execute(s, in, l, r) ==
  Ret(success(SystemContractsOutput), l)

\* blockNumber: a non-negative integer, 'latest', or absent (default 'latest')
GetBlockTool_schema(in) ==
  in.wf /\ in.opt \in {"none", "latest", "number"}

BlockInfo == [number |-> Num, hash |-> Str, timestamp |-> Num, timestampFormatted |-> Str,
              transactionCount |-> Num, gasUsed |-> Str, gasLimit |-> Str,
              baseFeePerGas |-> Str, parentHash |-> Str, explorerUrl |-> Str]

GetBlockTool_execute(s, in, l, r) ==
  CASE s = "start" ->
         Await(<<Call("getBlock", "rpc")>>, "getBlock", l)
    [] s = "getBlock" ->
         IF r.res # "ok" THEN Ret(error("RPC_CONNECTION_FAILED"), l)
         ELSE IF r.v = -1 THEN Ret(error("CONTRACT_NOT_FOUND"), l)
         ELSE Ret(success(BlockInfo), l)

----------------------------------------------------------------------------
(* Contract plugin: read_contract, get_logs, verify_contract *)

\* MidlWalletClient.readContract has its own try / catch
MidlWalletClient_readContract(s, l, r) ==
  CASE s = "start" ->
         Await(<<Call("readContract", "rpc")>>, "readContract", l)
    [] s = "readContract" ->
         IF r.res = "ok" THEN Val(l) ELSE Ret(error("CONTRACT_NOT_FOUND"), l)

ReadContractTool_schema(in) ==
  in.wf /\ IsEvmAddress(in.address)

ReadContractResult == [contractAddress |-> Str, functionName |-> Str, result |-> Unknown, network |-> Str]

ReadContractTool_execute(s, in, l, r) ==
  LET x == MidlWalletClient_readContract(s, l, r)
  IN IF x.k = "val" THEN Ret(success(ReadContractResult), x.loc) ELSE x

GetLogsTool_schema(in) ==
  in.wf /\ (in.address = Absent \/ IsEvmAddress(in.address)) /\ in.opt \in {"none", "latest", "number"}

GetLogsResult == [logs |-> Arr, count |-> Num, network |-> Str]

GetLogsTool_execute(s, in, l, r) ==
  CASE s = "start" ->
         Await(<<Call("getLogs", "rpc")>>, "getLogs", l)
    [] s = "getLogs" ->
         IF r.res = "ok" THEN Ret(success(GetLogsResult), l)
         ELSE Ret(error("RPC_CONNECTION_FAILED"), l)

VerifyContractTool_schema(in) ==
  in.wf /\ IsEvmAddress(in.address)

VerifyResult == [address |-> Str, verified |-> Bool, explorerUrl |-> Str, message |-> Str]

VerifyContractTool_execute(s, in, l, r) ==
  CASE s = "start" ->
         Await(<<Call("fetch", "explorer/verify")>>, "fetch", l)
    [] s = "fetch" ->
         IF r.res = "status" THEN Ret(errorWith("CONTRACT_NOT_FOUND", "response", FALSE), l)
         ELSE IF r.res = "ok" THEN Ret(success(VerifyResult), l)
         ELSE Ret(error("RPC_CONNECTION_FAILED"), l)

----------------------------------------------------------------------------
(* Utility plugin *)

ConvertBtcToEvmTool_schema(in) ==
  in.wf /\ IsPublicKey(in.id)

ConvertResult(publicKey, evmAddress) == [publicKey |-> Lit(publicKey), evmAddress |-> Lit(evmAddress)]

\* hexToBytes(publicKeyHex.startsWith('0x') ? publicKeyHex : `0x${publicKeyHex}`).length
PublicKeyBytes(publicKey) ==
  IF publicKey.fmt = "0xhex" THEN (publicKey.len - 2) \div 2 ELSE publicKey.len \div 2

PointOf(publicKey) == IF "point" \in DOMAIN publicKey THEN publicKey.point ELSE 0

\* secp256k1.ProjectivePoint.fromHex throws on 33 bytes that are no curve
\* point; 65 bytes are not checked
deriveEvmAddressThrows(publicKey) == PublicKeyBytes(publicKey) = 33 /\ PointOf(publicKey) = 0

\* keccak256 of the 64 coordinate bytes, last 20 bytes, as a checksummed
\* address: one address for each point, whatever the encoding of the key
deriveEvmAddress(publicKey) == [fmt |-> "evm", len |-> 42, point |-> PointOf(publicKey)]

\* an execute that echoes the key in the 0x form it passes to hexToBytes
ConvertBtcToEvmTool_execute_echoesHex(s, in, l, r) ==
  IF deriveEvmAddressThrows(in.id)
  THEN Ret(error("INVALID_ADDRESS"), l)
  ELSE Ret(success(ConvertResult(
             IF in.id.fmt = "hex" THEN [in.id EXCEPT !.fmt = "0xhex", !.len = @ + 2] ELSE in.id,
             deriveEvmAddress(in.id))), l)

ConvertBtcToEvmTool_execute(s, in, l, r) ==
  IF deriveEvmAddressThrows(in.id)
  THEN Ret(error("INVALID_ADDRESS"), l)
  ELSE Ret(success(ConvertResult(in.id, deriveEvmAddress(in.id))), l)

RuneIdOnly_schema(in) ==
  in.wf /\ IsRuneId(in.id)

RuneAddressResult == [runeId |-> Str, erc20Address |-> Str, explorerUrl |-> Str]

GetRuneErc20AddressTool_execute(s, in, l, r) ==
  Ret(success(RuneAddressResult), l)

\* to: EVM address; value: optional string; data: optional hex
EstimateGasTool_schema(in) ==
  in.wf /\ IsEvmAddress(in.address)

GasEstimateResult == [gasEstimate |-> Str, gasEstimateFormatted |-> Str, gasPriceWei |-> Str,
                      gasPriceGwei |-> Str, estimatedCostWei |-> Str, estimatedCostBtc |-> Str]

\* BigInt(Math.floor(parseFloat(value) * 1e18)) throws a RangeError on NaN
EstimateGasTool_execute(s, in, l, r) ==
  CASE s = "start" ->
         IF in.amount # NoAmount /\ IsNaNFloat(in.amount)
         THEN Ret(error("GAS_ESTIMATION_FAILED"), l)
         ELSE Await(<<Call("estimateGas", "rpc")>>, "estimateGas", l)
    [] s = "estimateGas" ->
         IF r.res = "ok" THEN Await(<<Call("getGasPrice", "rpc")>>, "getGasPrice", l)
         ELSE Ret(error("GAS_ESTIMATION_FAILED"), l)
    [] s = "getGasPrice" ->
         IF r.res = "ok" THEN Ret(success(GasEstimateResult), l)
         ELSE Ret(error("GAS_ESTIMATION_FAILED"), l)

----------------------------------------------------------------------------
(* Runes plugin: the two lookups *)

GetRunesTool_schema(in) ==
  in.wf /\ (in.address = Absent \/ IsStringOfLen(in.address, 1, 1000000))

GetRunesResult == [address |-> Str, total |-> Num, runes |-> Arr]

\* here resolveAddress is awaited inside the try block
GetRunesTool_execute(s, in, l, r) ==
  CASE s \in {"start", "resolve"} ->
         LET a == resolveAddress(s, in.address, "btc-ordinals", l, r)
         IN IF a.k = "val"
            THEN IF getNetworkConfigThrows(a.loc.penv)
                 THEN Ret(error("RPC_CONNECTION_FAILED"), getNetworkConfig(a.loc))
                 ELSE Await(<<Call("fetch", "runes/balances")>>, "fetch", getNetworkConfig(a.loc))
            ELSE IF a.k = "throw" THEN Ret(error("RPC_CONNECTION_FAILED"), a.loc)
            ELSE a
    [] s = "fetch" ->
         IF r.res = "ok" THEN Ret(success(GetRunesResult), l)
         ELSE Ret(error("RPC_CONNECTION_FAILED"), l)

GetRuneBalanceTool_schema(in) ==
  in.wf /\ (in.address = Absent \/ IsStringOfLen(in.address, 1, 1000000)) /\ IsRuneId(in.id)

\* the payload built by GetRuneBalanceTool.execute: balance is data.data, the
\* decimal numeral the runes API reports
RuneBalancePayload(balance) == [address |-> Str, runeId |-> Str, balance |-> Lit(ToString(balance))]

\* a rune balance lookup that reports a 404 under a code of its own
GetRuneBalanceTool_execute_ownCode(s, in, l, r) ==
  CASE s \in {"start", "resolve"} ->
         LET a == resolveAddress(s, in.address, "btc-ordinals", l, r)
         IN IF a.k = "val"
            THEN IF getNetworkConfigThrows(a.loc.penv)
                 THEN Ret(error("RPC_CONNECTION_FAILED"), getNetworkConfig(a.loc))
                 ELSE Await(<<Call("fetch", "runes/balance")>>, "fetch", getNetworkConfig(a.loc))
            ELSE IF a.k = "throw" THEN Ret(error("RPC_CONNECTION_FAILED"), a.loc)
            ELSE a
    [] s = "fetch" ->
         IF r.res = "status"
         THEN IF r.status = 404 THEN Ret(error("NOT_FOUND"), l)
              ELSE Ret(error("RPC_CONNECTION_FAILED"), l)
         ELSE IF r.res = "ok" THEN Ret(success(RuneBalancePayload(r.v)), l)
         ELSE Ret(error("RPC_CONNECTION_FAILED"), l)

GetRuneBalanceTool_execute(s, in, l, r) ==
  CASE s \in {"start", "resolve"} ->
         LET a == resolveAddress(s, in.address, "btc-ordinals", l, r)
         IN IF a.k = "val"
            THEN IF getNetworkConfigThrows(a.loc.penv)
                 THEN Ret(error("RPC_CONNECTION_FAILED"), getNetworkConfig(a.loc))
                 ELSE Await(<<Call("fetch", "runes/balance")>>, "fetch", getNetworkConfig(a.loc))
            ELSE IF a.k = "throw" THEN Ret(error("RPC_CONNECTION_FAILED"), a.loc)
            ELSE a
    [] s = "fetch" ->
         IF r.res = "status"
         THEN IF r.status = 404 THEN Ret(error("RUNE_NOT_FOUND"), l)
              ELSE Ret(error("RPC_CONNECTION_FAILED"), l)
         ELSE IF r.res = "ok" THEN Ret(success(RuneBalancePayload(r.v)), l)
         ELSE Ret(error("RPC_CONNECTION_FAILED"), l)

----------------------------------------------------------------------------
(* Transfer plugin *)

\* MidlWalletClient.sendTransaction: walletClient.sendTransaction, then
\* waitForTransactionReceipt, inside one try
MidlWalletClient_sendTransaction(s, l, r) ==
  CASE s = "start" ->
         Await(<<Call("sendTransaction", "rpc")>>, "sendTransaction", l)
    [] s = "sendTransaction" ->
         IF r.res = "ok" THEN Await(<<Call("waitForTransactionReceipt", "rpc")>>, "waitForTransactionReceipt", l)
         ELSE IF Includes(r.msg, "insufficient funds") THEN Ret(error("INSUFFICIENT_FUNDS"), l)
         ELSE Ret(error("TX_REVERTED"), l)
    [] s = "waitForTransactionReceipt" ->
         IF r.res = "ok" THEN Val([l EXCEPT !.nonce = r.v])
         ELSE IF Includes(r.msg, "insufficient funds") THEN Ret(error("INSUFFICIENT_FUNDS"), l)
         ELSE Ret(error("TX_REVERTED"), l)

\* MidlWalletClient.writeContract: walletClient.writeContract, then
\* waitForTransactionReceipt, inside one try
MidlWalletClient_writeContract(s, l, r) ==
  CASE s = "enter" ->
         Await(<<Call("writeContract", "rpc")>>, "writeContract", l)
    [] s = "writeContract" ->
         IF r.res = "ok" THEN Await(<<Call("waitForTransactionReceipt", "rpc")>>, "waitForTransactionReceipt", l)
         ELSE Ret(error("TX_REVERTED"), l)
    [] s = "waitForTransactionReceipt" ->
         IF r.res = "ok" THEN Val([l EXCEPT !.nonce = r.v])
         ELSE Ret(error("TX_REVERTED"), l)

TransferEvmTool_schema(in) ==
  in.wf /\ IsEvmAddress(in.address) /\ in.amount # NoAmount

TransferResult(v) == [transactionHash |-> Str, blockNumber |-> Num, status |-> ReceiptStatus(v),
                      gasUsed |-> NumStr, explorerUrl |-> Str, from |-> Str, to |-> Str, amount |-> Str]

\* parseEther(input.amount) is evaluated outside any try block
TransferEvmTool_execute(s, in, l, r) ==
  IF s = "start" /\ ParseUnitsThrows(in.amount)
  THEN Throw("InvalidDecimalNumberError", l)
  ELSE LET x == MidlWalletClient_sendTransaction(s, l, r)
       IN IF x.k = "val" THEN Ret(success(TransferResult(x.loc.nonce)), x.loc) ELSE x

TransferTokenTool_schema(in) ==
  in.wf /\ IsEvmAddress(in.address) /\ IsEvmAddress(in.address2) /\ in.amount # NoAmount

TransferTokenResult(v) == [transactionHash |-> Str, blockNumber |-> Num, status |-> ReceiptStatus(v),
                           gasUsed |-> NumStr, explorerUrl |-> Str, tokenAddress |-> Str,
                           from |-> Str, to |-> Str, amount |-> Str]

\* decimals are read first; parseUnits may throw inside the try
TransferTokenTool_execute(s, in, l, r) ==
  CASE s = "start" ->
         Await(<<Call("readContract", "rpc")>>, "decimals", l)
    [] s = "decimals" ->
         IF r.res # "ok" THEN Ret(error("TX_REVERTED"), l)
         ELSE IF ParseUnitsThrows(in.amount) THEN Ret(error("TX_REVERTED"), l)
         ELSE MidlWalletClient_writeContract("enter", l, r)
    [] OTHER ->
         LET x == MidlWalletClient_writeContract(s, l, r)
         IN IF x.k = "val" THEN Ret(success(TransferTokenResult(x.loc.nonce)), x.loc) ELSE x

SendRawTransactionTool_schema(in) ==
  in.wf /\ IsSignedTx(in.id)

SendRawTransactionTool_execute(s, in, l, r) ==
  CASE s = "start" ->
         Await(<<Call("sendRawTransaction", "rpc")>>, "sendRawTransaction", l)
    [] s = "sendRawTransaction" ->
         IF r.res = "ok" THEN Await(<<Call("waitForTransactionReceipt", "rpc")>>, "waitForTransactionReceipt", l)
         ELSE Ret(error("TX_REVERTED"), l)
    [] s = "waitForTransactionReceipt" ->
         IF r.res = "ok" THEN Ret(success(TxReceipt(r.v)), l)
         ELSE Ret(error("TX_REVERTED"), l)

----------------------------------------------------------------------------
(* MidlBtcWalletClient (btc-wallet.ts) *)

\* connect(): one SDK connect unless already connected
MidlBtcWalletClient_connect(l) ==
  IF l.wallet = "connected" THEN Val(l)
  ELSE Await(<<Call("connect", "sdk")>>, "connect", l)

\* const btcWallet = createBtcWalletFromEnv(); await btcWallet.connect()
CreateBtcWalletAndConnect(l) ==
  IF createBtcWalletFromEnvThrows(l.penv) THEN Throw(MsgKeyRequired, createBtcWalletFromEnv(l))
  ELSE MidlBtcWalletClient_connect([createBtcWalletFromEnv(l) EXCEPT !.wallet = "created"])

\* an executeIntention that submits whether or not signing succeeded
MidlBtcWalletClient_executeIntention_submitsUnsigned(s, l, r, intentionParams) ==
  CASE s = "enter" ->
         IF getNetworkConfigThrows(l.penv) THEN Throw(MsgInvalidNetwork, getNetworkConfig(l))
         ELSE Await(<<CallWith("addTxIntention", "sdk", intentionParams)>>, "addTxIntention",
                    getNetworkConfig(l))
    [] s = "addTxIntention" ->
         IF r.res = "ok" THEN Await(<<Call("finalizeBTCTransaction", "sdk")>>, "finalizeBTCTransaction", l)
         ELSE Throw(r.msg, l)
    [] s = "finalizeBTCTransaction" ->
         IF r.res = "ok"
         THEN Await(<<CallWith("signIntentions", "sdk", [txId |-> r.v])>>, "signIntentions",
                    [l EXCEPT !.btcTx = [id |-> r.v, hex |-> r.w]])
         ELSE Throw(r.msg, l)
    [] s = "signIntentions" ->
         Await(<<CallWith("sendBTCTransactions", "sdk", [btcTransaction |-> l.btcTx.hex])>>,
               "sendBTCTransactions", l)
    [] s = "sendBTCTransactions" ->
         IF r.res = "ok" THEN Val(l) ELSE Throw(r.msg, l)

\* executeIntention: getEvmClient (which calls getNetworkConfig), then
\* add -> finalize -> sign -> submit, no try block; signIntentions is given
\* { txId: btcTx.tx.id }, sendBTCTransactions { btcTransaction: btcTx.tx.hex }
MidlBtcWalletClient_executeIntention(s, l, r, intentionParams) ==
  CASE s = "enter" ->
         IF getNetworkConfigThrows(l.penv) THEN Throw(MsgInvalidNetwork, getNetworkConfig(l))
         ELSE Await(<<CallWith("addTxIntention", "sdk", intentionParams)>>, "addTxIntention",
                    getNetworkConfig(l))
    [] s = "addTxIntention" ->
         IF r.res = "ok" THEN Await(<<Call("finalizeBTCTransaction", "sdk")>>, "finalizeBTCTransaction", l)
         ELSE Throw(r.msg, l)
    [] s = "finalizeBTCTransaction" ->
         IF r.res = "ok"
         THEN Await(<<CallWith("signIntentions", "sdk", [txId |-> r.v])>>, "signIntentions",
                    [l EXCEPT !.btcTx = [id |-> r.v, hex |-> r.w]])
         ELSE Throw(r.msg, l)
    [] s = "signIntentions" ->
         IF r.res = "ok"
         THEN Await(<<CallWith("sendBTCTransactions", "sdk", [btcTransaction |-> l.btcTx.hex])>>,
                    "sendBTCTransactions", l)
         ELSE Throw(r.msg, l)
    [] s = "sendBTCTransactions" ->
         IF r.res = "ok" THEN Val(l) ELSE Throw(r.msg, l)

\* satoshisToWei of the SDK: one satoshi is 10^10 wei
satoshisToWei(satoshis) == Wei(satoshis, 0)

Intention(kind, satoshis, value, recipient) ==
  [kind |-> kind, satoshis |-> satoshis, value |-> value, recipient |-> recipient]

MidlBtcWalletClient_bridgeBtcToEvm(s, l, r, satoshis) ==
  MidlBtcWalletClient_executeIntention(s, l, r,
    Intention("deposit", satoshis, satoshisToWei(satoshis), Absent))

\* the btcAddress parameter is logged and not used otherwise
MidlBtcWalletClient_bridgeEvmToBtc(s, l, r, satoshis, btcAddress) ==
  MidlBtcWalletClient_executeIntention(s, l, r,
    Intention("withdraw", satoshis, Wei(0, 0), Absent))

MidlBtcWalletClient_bridgeRuneToErc20(s, l, r) ==
  MidlBtcWalletClient_executeIntention(s, l, r, Intention("depositRunes", 0, Wei(0, 0), Absent))

MidlBtcWalletClient_bridgeErc20ToRune(s, l, r) ==
  MidlBtcWalletClient_executeIntention(s, l, r, Intention("withdrawRunes", 0, Wei(0, 0), Absent))

\* deployContract reads the account nonce, then runs the intention
MidlBtcWalletClient_deployContract(s, l, r) ==
  CASE s = "enter" ->
         IF getNetworkConfigThrows(l.penv) THEN Throw(MsgInvalidNetwork, getNetworkConfig(l))
         ELSE Await(<<Call("getTransactionCount", "rpc")>>, "getTransactionCount", getNetworkConfig(l))
    [] s = "getTransactionCount" ->
         IF r.res = "ok"
         THEN MidlBtcWalletClient_executeIntention("enter", [l EXCEPT !.nonce = r.v], r,
                Intention("deploy", 0, Wei(0, 0), Absent))
         ELSE Throw(r.msg, l)
    [] OTHER ->
         MidlBtcWalletClient_executeIntention(s, l, r, Intention("deploy", 0, Wei(0, 0), Absent))

\* writeContract: a positive value adds a deposit of value / 10^10 satoshis
MidlBtcWalletClient_writeContract(s, l, r, value) ==
  MidlBtcWalletClient_executeIntention(s, l, r,
    IF value.sat > 0 \/ value.rem > 0
    THEN Intention("write", value.sat, value, Absent)
    ELSE Intention("write", 0, Wei(0, 0), Absent))

MidlBtcWalletClient_transferRune(s, l, r) ==
  CASE s = "enter" ->
         Await(<<Call("edictRune", "sdk")>>, "edictRune", l)
    [] s = "edictRune" ->
         IF r.res = "ok" THEN Val(l) ELSE Throw(r.msg, l)

----------------------------------------------------------------------------
(* Bridge plugin *)

BridgeBtcToEvmTool_schema(in) ==
  in.wf /\ in.amount # NoAmount /\ in.unit \in {"absent", "btc", "satoshis"}

\* unit defaults to 'btc'
UnitOf(in) == IF in.unit = "absent" THEN "btc" ELSE in.unit

BridgeBtcToEvmResult(satoshis) ==
  [btcTxId |-> Str, btcTxHex |-> Str, satoshis |-> Lit(ToString(satoshis)), btcAmount |-> Str,
   explorerUrl |-> Str, status |-> Lit("pending_confirmation")]

\* the catch clause shared by the two BTC bridge tools
BridgeCatch(msg, l) ==
  IF Includes(msg, "insufficient")
  THEN Ret(errorWith("INSUFFICIENT_FUNDS", "none", TRUE), l)
  ELSE Ret(error("RPC_CONNECTION_FAILED"), l)

\* amount parsing of the two BTC bridge tools: "invalid", "throws" or "ok"
ParseBridgeAmount(in) ==
  IF UnitOf(in) = "btc"
  THEN IF IsNaNFloat(in.amount) \/ in.amount.n <= 0 THEN "invalid"
       ELSE IF FloorBtcToSat(in.amount) <= 0 THEN "invalid" ELSE "ok"
  ELSE IF BigIntThrows(in.amount) THEN "throws"
       ELSE IF in.amount.n <= 0 THEN "invalid" ELSE "ok"

SatoshisOf(in) ==
  IF UnitOf(in) = "btc" THEN FloorBtcToSat(in.amount) ELSE in.amount.n

BridgeBtcToEvmTool_execute(s, in, l, r) ==
  CASE s = "start" ->
         IF getNetworkConfigThrows(l.penv) THEN Throw(MsgInvalidNetwork, getNetworkConfig(l))
         ELSE IF ParseBridgeAmount(in) = "invalid"
              THEN Ret(error("INVALID_ADDRESS"), getNetworkConfig(l))
         ELSE IF ParseBridgeAmount(in) = "throws"
              THEN BridgeCatch("SyntaxError", getNetworkConfig(l))
         ELSE LET c == CreateBtcWalletAndConnect(
                         [getNetworkConfig(l) EXCEPT !.satoshis = SatoshisOf(in)])
              IN IF c.k = "throw" THEN BridgeCatch(c.msg, c.loc) ELSE c
    [] s = "connect" ->
         IF r.res # "ok" THEN BridgeCatch(r.msg, l)
         ELSE MidlBtcWalletClient_bridgeBtcToEvm("enter", [l EXCEPT !.wallet = "connected"], r, l.satoshis)
    [] OTHER ->
         LET x == MidlBtcWalletClient_bridgeBtcToEvm(s, l, r, l.satoshis)
         IN IF x.k = "val" THEN Ret(success(BridgeBtcToEvmResult(x.loc.satoshis)), x.loc)
            ELSE IF x.k = "throw" THEN BridgeCatch(x.msg, x.loc)
            ELSE x

BridgeEvmToBtcTool_schema(in) ==
  in.wf /\ in.amount # NoAmount /\ in.unit \in {"absent", "btc", "satoshis"}
        /\ IsBtcAddressRegex(in.address)

BridgeEvmToBtcResult(satoshis) ==
  [btcTxId |-> Str, btcTxHex |-> Str, satoshis |-> Lit(ToString(satoshis)), btcAmount |-> Str,
   btcAddress |-> Str, explorerUrl |-> Str, status |-> Lit("pending_confirmation")]

BridgeEvmToBtcTool_execute(s, in, l, r) ==
  CASE s = "start" ->
         IF getNetworkConfigThrows(l.penv) THEN Throw(MsgInvalidNetwork, getNetworkConfig(l))
         ELSE IF ParseBridgeAmount(in) = "invalid"
              THEN Ret(error("INVALID_ADDRESS"), getNetworkConfig(l))
         ELSE IF ParseBridgeAmount(in) = "throws"
              THEN BridgeCatch("SyntaxError", getNetworkConfig(l))
         ELSE LET c == CreateBtcWalletAndConnect(
                         [getNetworkConfig(l) EXCEPT !.satoshis = SatoshisOf(in)])
              IN IF c.k = "throw" THEN BridgeCatch(c.msg, c.loc) ELSE c
    [] s = "connect" ->
         IF r.res # "ok" THEN BridgeCatch(r.msg, l)
         ELSE MidlBtcWalletClient_bridgeEvmToBtc("enter", [l EXCEPT !.wallet = "connected"], r,
                l.satoshis, in.address)
    [] OTHER ->
         LET x == MidlBtcWalletClient_bridgeEvmToBtc(s, l, r, l.satoshis, in.address)
         IN IF x.k = "val" THEN Ret(success(BridgeEvmToBtcResult(x.loc.satoshis)), x.loc)
            ELSE IF x.k = "throw" THEN BridgeCatch(x.msg, x.loc)
            ELSE x

GetBridgeStatusTool_schema(in) ==
  in.wf /\ IsHex64(in.id)

\* a stage computation that declares a bridge without confirmations failed
BridgeStage_reportsFailed(confirmed, confirmations, evmCredited) ==
  IF ~confirmed THEN "pending"
  ELSE IF confirmations < 1 THEN "failed"
  ELSE IF ~evmCredited THEN "validators_processing"
  ELSE "evm_credited"

BridgeStage(confirmed, confirmations, evmCredited) ==
  IF ~confirmed THEN "pending"
  ELSE IF confirmations < 1 THEN "btc_confirmed"
  ELSE IF ~evmCredited THEN "validators_processing"
  ELSE "evm_credited"

BridgeStatusResult(stage, confirmations, evmCredited) ==
  [btcTxId |-> Str, stage |-> Lit(stage), stageDescription |-> Str,
   btcConfirmations |-> NumOf(confirmations), btcBlockHeight |-> Num,
   evmCredited |-> BoolOf(evmCredited), suggestion |-> Str, links |-> Obj]

\* mempool tx answer Ok(c, h): c = 1 iff status.confirmed, h = status.block_height
\* (0 when absent); tip answer Ok(t, 0): the tip height
\* getNetworkConfig() is called before the try block is entered
GetBridgeStatusTool_execute(s, in, l, r) ==
  CASE s = "start" ->
         IF getNetworkConfigThrows(l.penv) THEN Throw(MsgInvalidNetwork, getNetworkConfig(l))
         ELSE Await(<<Call("fetch", "mempool/tx")>>, "btcResponse", getNetworkConfig(l))
    [] s = "btcResponse" ->
         IF r.res = "status"
         THEN IF r.status = 404 THEN Ret(errorWith("CONTRACT_NOT_FOUND", "none", TRUE), l)
              ELSE Ret(error("RPC_CONNECTION_FAILED"), l)
         ELSE IF r.res = "throw" THEN Ret(error("RPC_CONNECTION_FAILED"), l)
         ELSE LET l2 == [l EXCEPT !.confirmed = (r.v = 1), !.height = r.w, !.confirmations = 0]
              IN IF l2.confirmed /\ l2.height # 0
                 THEN Await(<<Call("fetch", "mempool/tip")>>, "tipResponse", l2)
                 ELSE Await(<<Call("getBalance", "rpc")>>, "evmBalance", l2)
    [] s = "tipResponse" ->
         IF r.res = "throw" THEN Ret(error("RPC_CONNECTION_FAILED"), l)
         ELSE Await(<<Call("getBalance", "rpc")>>, "evmBalance",
                    IF r.res = "ok"
                    THEN [l EXCEPT !.confirmations = r.v - l.height + 1]
                    ELSE [l EXCEPT !.tipFailed = TRUE])
    [] s = "evmBalance" ->
         IF r.res # "ok" THEN Ret(error("RPC_CONNECTION_FAILED"), l)
         ELSE LET evmCredited == r.v > 0
              IN Ret(success(BridgeStatusResult(BridgeStage(l.confirmed, l.confirmations, evmCredited),
                                                l.confirmations, evmCredited)), l)

----------------------------------------------------------------------------
(* Runes plugin: transfers and bridges; contract write; deploy *)

RuneAmount_schema(in) ==
  in.wf /\ IsRuneId(in.id) /\ in.amount # NoAmount

TransferRuneTool_schema(in) ==
  in.wf /\ IsRuneId(in.id) /\ in.amount # NoAmount /\ IsStringOfLen(in.address, 1, 1000000)

TransferRuneResult == [txId |-> Str, txHex |-> Str, runeId |-> Str, amount |-> Str,
                       toAddress |-> Str, explorerUrl |-> Str]

\* BigInt(input.amount) is evaluated after connect, inside the try
TransferRuneTool_execute(s, in, l, r) ==
  CASE s = "start" ->
         LET c == CreateBtcWalletAndConnect(l)
         IN IF c.k = "throw" THEN Ret(error("TX_REVERTED"), c.loc) ELSE c
    [] s = "connect" ->
         IF r.res # "ok" \/ BigIntThrows(in.amount) THEN Ret(error("TX_REVERTED"), l)
         ELSE MidlBtcWalletClient_transferRune("enter", [l EXCEPT !.wallet = "connected"], r)
    [] OTHER ->
         LET x == MidlBtcWalletClient_transferRune(s, l, r)
         IN IF x.k = "val"
            THEN IF getNetworkConfigThrows(x.loc.penv)
                 THEN Ret(error("TX_REVERTED"), getNetworkConfig(x.loc))
                 ELSE Ret(success(TransferRuneResult), getNetworkConfig(x.loc))
            ELSE IF x.k = "throw" THEN Ret(error("TX_REVERTED"), x.loc)
            ELSE x

BridgeRuneResult == [btcTxId |-> Str, btcTxHex |-> Str, runeId |-> Str, amount |-> Str,
                     explorerUrl |-> Str, status |-> Lit("pending_confirmation")]

BridgeRuneToErc20Tool_execute(s, in, l, r) ==
  CASE s = "start" ->
         LET c == CreateBtcWalletAndConnect(l)
         IN IF c.k = "throw" THEN Ret(error("TX_REVERTED"), c.loc) ELSE c
    [] s = "connect" ->
         IF r.res # "ok" \/ BigIntThrows(in.amount) THEN Ret(error("TX_REVERTED"), l)
         ELSE MidlBtcWalletClient_bridgeRuneToErc20("enter", [l EXCEPT !.wallet = "connected"], r)
    [] OTHER ->
         LET x == MidlBtcWalletClient_bridgeRuneToErc20(s, l, r)
         IN IF x.k = "val"
            THEN IF getNetworkConfigThrows(x.loc.penv)
                 THEN Ret(error("TX_REVERTED"), getNetworkConfig(x.loc))
                 ELSE Ret(success(BridgeRuneResult), getNetworkConfig(x.loc))
            ELSE IF x.k = "throw" THEN Ret(error("TX_REVERTED"), x.loc)
            ELSE x

BridgeErc20ToRuneTool_execute(s, in, l, r) ==
  CASE s = "start" ->
         LET c == CreateBtcWalletAndConnect(l)
         IN IF c.k = "throw" THEN Ret(error("TX_REVERTED"), c.loc) ELSE c
    [] s = "connect" ->
         IF r.res # "ok" \/ BigIntThrows(in.amount) THEN Ret(error("TX_REVERTED"), l)
         ELSE MidlBtcWalletClient_bridgeErc20ToRune("enter", [l EXCEPT !.wallet = "connected"], r)
    [] OTHER ->
         LET x == MidlBtcWalletClient_bridgeErc20ToRune(s, l, r)
         IN IF x.k = "val"
            THEN IF getNetworkConfigThrows(x.loc.penv)
                 THEN Ret(error("TX_REVERTED"), getNetworkConfig(x.loc))
                 ELSE Ret(success(BridgeRuneResult), getNetworkConfig(x.loc))
            ELSE IF x.k = "throw" THEN Ret(error("TX_REVERTED"), x.loc)
            ELSE x

\* value: optional string holding a wei amount
WriteContractTool_schema(in) ==
  in.wf /\ IsEvmAddress(in.address)

WriteContractResult == [contractAddress |-> Str, functionName |-> Str, transactionHash |-> Str,
                        btcTxId |-> Str, status |-> Lit("pending_confirmation"),
                        explorerUrl |-> Str, btcExplorerUrl |-> Str]

\* input.value ? BigInt(input.value) : 0n, for an integer numeral n * 10^(-d)
WeiOf(a) ==
  IF a = NoAmount THEN Wei(0, 0)
  ELSE IF a.d <= -10 THEN Wei(a.n * Pow10(0 - a.d - 10), 0)
  ELSE Wei(0, a.n * Pow10(0 - a.d))

WriteContractTool_execute(s, in, l, r) ==
  CASE s = "start" ->
         LET c == CreateBtcWalletAndConnect(l)
         IN IF c.k = "throw" THEN Ret(error("TX_REVERTED"), c.loc) ELSE c
    [] s = "connect" ->
         IF r.res # "ok" \/ (in.amount # NoAmount /\ BigIntThrows(in.amount))
         THEN Ret(error("TX_REVERTED"), l)
         ELSE MidlBtcWalletClient_writeContract("enter", [l EXCEPT !.wallet = "connected"], r, WeiOf(in.amount))
    [] OTHER ->
         LET x == MidlBtcWalletClient_writeContract(s, l, r, WeiOf(in.amount))
         IN IF x.k = "val"
            THEN IF getNetworkConfigThrows(x.loc.penv)
                 THEN Ret(error("TX_REVERTED"), getNetworkConfig(x.loc))
                 ELSE Ret(success(WriteContractResult), getNetworkConfig(x.loc))
            ELSE IF x.k = "throw" THEN Ret(error("TX_REVERTED"), x.loc)
            ELSE x

\* refine: template || (source && contractName) || (abi && bytecode)
DeployContractTool_schema(in) ==
  in.wf /\ in.opt \in {"template", "template_unknown", "source", "source_bad", "abi"}

\* the payload built by DeployContractTool.execute
DeployPayload == [contractAddress |-> Str, transactionHash |-> Str, blockNumber |-> Num,
                  status |-> Lit("pending_confirmation"), gasUsed |-> Lit("pending"),
                  explorerUrl |-> Str, abi |-> Arr, btcTxId |-> Str, btcExplorerUrl |-> Str]

\* generateFromTemplate throws on an unknown template, compileSolidity on
\* source that does not compile; both are synchronous and inside the try
DeployContractTool_execute(s, in, l, r) ==
  CASE s = "start" ->
         IF in.opt \in {"template_unknown", "source_bad"} THEN Ret(error("TX_REVERTED"), l)
         ELSE IF in.opt \in {"template", "source", "abi"}
              THEN LET c == CreateBtcWalletAndConnect(l)
                   IN IF c.k = "throw" THEN Ret(error("TX_REVERTED"), c.loc) ELSE c
              ELSE Ret(error("INVALID_ABI"), l)
    [] s = "connect" ->
         IF r.res # "ok" THEN Ret(error("TX_REVERTED"), l)
         ELSE MidlBtcWalletClient_deployContract("enter", [l EXCEPT !.wallet = "connected"], r)
    [] OTHER ->
         LET x == MidlBtcWalletClient_deployContract(s, l, r)
         IN IF x.k = "val"
            THEN IF getNetworkConfigThrows(x.loc.penv)
                 THEN Ret(error("TX_REVERTED"), getNetworkConfig(x.loc))
                 ELSE Ret(success(DeployPayload), getNetworkConfig(x.loc))
            ELSE IF x.k = "throw" THEN Ret(error("TX_REVERTED"), x.loc)
            ELSE x

----------------------------------------------------------------------------
(* Tool registry *)

Tools == {"get_network_info", "get_system_contracts", "get_block",
          "get_evm_balance", "get_btc_balance", "get_token_balance",
          "read_contract", "write_contract", "verify_contract", "get_logs",
          "get_utxos", "get_transaction", "get_transaction_receipt", "get_fee_rate",
          "deploy_contract",
          "transfer_evm", "transfer_token", "send_raw_transaction",
          "estimate_gas", "convert_btc_to_evm", "get_rune_erc20_address",
          "get_runes", "get_rune_balance", "transfer_rune", "bridge_rune_to_erc20",
          "bridge_erc20_to_rune",
          "bridge_btc_to_evm", "bridge_evm_to_btc", "get_bridge_status"}

\* schema.safeParse(rawInput).success
Schema(t, in) ==
  CASE t = "get_network_info"        -> EmptyStrict_schema(in)
    [] t = "get_system_contracts"    -> EmptyStrict_schema(in)
    [] t = "get_block"               -> GetBlockTool_schema(in)
    [] t = "get_evm_balance"         -> GetEvmBalanceTool_schema(in)
    [] t = "get_btc_balance"         -> GetBtcBalanceTool_schema(in)
    [] t = "get_token_balance"       -> GetTokenBalanceTool_schema(in)
    [] t = "read_contract"           -> ReadContractTool_schema(in)
    [] t = "write_contract"          -> WriteContractTool_schema(in)
    [] t = "verify_contract"         -> VerifyContractTool_schema(in)
    [] t = "get_logs"                -> GetLogsTool_schema(in)
    [] t = "get_utxos"               -> GetUtxosTool_schema(in)
    [] t = "get_transaction"         -> GetTransactionTool_schema(in)
    [] t = "get_transaction_receipt" -> GetTransactionReceiptTool_schema(in)
    [] t = "get_fee_rate"            -> EmptyStrict_schema(in)
    [] t = "deploy_contract"         -> DeployContractTool_schema(in)
    [] t = "transfer_evm"            -> TransferEvmTool_schema(in)
    [] t = "transfer_token"          -> TransferTokenTool_schema(in)
    [] t = "send_raw_transaction"    -> SendRawTransactionTool_schema(in)
    [] t = "estimate_gas"            -> EstimateGasTool_schema(in)
    [] t = "convert_btc_to_evm"      -> ConvertBtcToEvmTool_schema(in)
    [] t = "get_rune_erc20_address"  -> RuneIdOnly_schema(in)
    [] t = "get_runes"               -> GetRunesTool_schema(in)
    [] t = "get_rune_balance"        -> GetRuneBalanceTool_schema(in)
    [] t = "transfer_rune"           -> TransferRuneTool_schema(in)
    [] t = "bridge_rune_to_erc20"    -> RuneAmount_schema(in)
    [] t = "bridge_erc20_to_rune"    -> RuneAmount_schema(in)
    [] t = "bridge_btc_to_evm"       -> BridgeBtcToEvmTool_schema(in)
    [] t = "bridge_evm_to_btc"       -> BridgeEvmToBtcTool_schema(in)
    [] t = "get_bridge_status"       -> GetBridgeStatusTool_schema(in)

\* tool.execute, resumed at await point s with the upstream's answer r
Execute(t, s, in, l, r) ==
  CASE t = "get_network_info"        -> GetNetworkInfoTool_execute(s, in, l, r)
    [] t = "get_system_contracts"    -> GetSystemContractsTool_execute(s, in, l, r)
    [] t = "get_block"               -> GetBlockTool_execute(s, in, l, r)
    [] t = "get_evm_balance"         -> GetEvmBalanceTool_execute(s, in, l, r)
    [] t = "get_btc_balance"         -> GetBtcBalanceTool_execute(s, in, l, r)
    [] t = "get_token_balance"       -> GetTokenBalanceTool_execute(s, in, l, r)
    [] t = "read_contract"           -> ReadContractTool_execute(s, in, l, r)
    [] t = "write_contract"          -> WriteContractTool_execute(s, in, l, r)
    [] t = "verify_contract"         -> VerifyContractTool_execute(s, in, l, r)
    [] t = "get_logs"                -> GetLogsTool_execute(s, in, l, r)
    [] t = "get_utxos"               -> GetUtxosTool_execute(s, in, l, r)
    [] t = "get_transaction"         -> GetTransactionTool_execute(s, in, l, r)
    [] t = "get_transaction_receipt" -> GetTransactionReceiptTool_execute(s, in, l, r)
    [] t = "get_fee_rate"            -> GetFeeRateTool_execute(s, in, l, r)
    [] t = "deploy_contract"         -> DeployContractTool_execute(s, in, l, r)
    [] t = "transfer_evm"            -> TransferEvmTool_execute(s, in, l, r)
    [] t = "transfer_token"          -> TransferTokenTool_execute(s, in, l, r)
    [] t = "send_raw_transaction"    -> SendRawTransactionTool_execute(s, in, l, r)
    [] t = "estimate_gas"            -> EstimateGasTool_execute(s, in, l, r)
    [] t = "convert_btc_to_evm"      -> ConvertBtcToEvmTool_execute(s, in, l, r)
    [] t = "get_rune_erc20_address"  -> GetRuneErc20AddressTool_execute(s, in, l, r)
    [] t = "get_runes"               -> GetRunesTool_execute(s, in, l, r)
    [] t = "get_rune_balance"        -> GetRuneBalanceTool_execute(s, in, l, r)
    [] t = "transfer_rune"           -> TransferRuneTool_execute(s, in, l, r)
    [] t = "bridge_rune_to_erc20"    -> BridgeRuneToErc20Tool_execute(s, in, l, r)
    [] t = "bridge_erc20_to_rune"    -> BridgeErc20ToRuneTool_execute(s, in, l, r)
    [] t = "bridge_btc_to_evm"       -> BridgeBtcToEvmTool_execute(s, in, l, r)
    [] t = "bridge_evm_to_btc"       -> BridgeEvmToBtcTool_execute(s, in, l, r)
    [] t = "get_bridge_status"       -> GetBridgeStatusTool_execute(s, in, l, r)

\* raw inputs a caller may send
In(a, a2, id, amt, unit, opt, wf) ==
  [address |-> a, address2 |-> a2, id |-> id, amount |-> amt, unit |-> unit, opt |-> opt, wf |-> wf]

NoInput == In(Absent, Absent, Absent, NoAmount, "absent", "none", TRUE)

\* public keys: both encodings of point 1, with and without 0x, a compressed
\* key of point 2, and 33 and 65 bytes that encode no point
PublicKeySamples ==
  {PublicKeyHex(x, b, 1) : x \in BOOLEAN, b \in {33, 65}}
    \cup {PublicKeyHex(FALSE, 33, 2), PubKey33Bad, PublicKeyHex(TRUE, 33, 0), PublicKeyHex(FALSE, 65, 0)}

AddressSamples == {Absent, EvmAddr, Bech32Addr, LegacyAddr, JunkShort, JunkMid, JunkLong}

\* amount strings: "1", "0", "1.5", "0.000000001", "abc", "20000000000"
AmountSamples == {Amt("num", 1, 0), Amt("num", 0, 0), Amt("num", 15, 1), Amt("num", 1, 9),
                  Amt("text", 0, 0)}
\* amounts offered to the BTC bridges: also "-1" and "1abc"
BridgeAmountSamples == AmountSamples \cup {Amt("num", -1, 0), Amt("prefix", 1, 0)}
WeiSamples == {NoAmount, Amt("num", 0, 0), Amt("num", 5, 0), Amt("num", 2, -10), Amt("text", 0, 0)}

OnlyAddress(as) == {In(a, Absent, Absent, NoAmount, "absent", "none", wf) : a \in as, wf \in BOOLEAN}
OnlyId(ids)     == {In(Absent, Absent, i, NoAmount, "absent", "none", TRUE) : i \in ids}
NoArguments     == {In(Absent, Absent, Absent, NoAmount, "absent", "none", wf) : wf \in BOOLEAN}

RawInputs(t) ==
  CASE t \in {"get_network_info", "get_system_contracts", "get_fee_rate"} -> NoArguments
    [] t = "get_block" ->
         {In(Absent, Absent, Absent, NoAmount, "absent", o, TRUE) : o \in {"none", "latest", "number", "negative"}}
    [] t \in {"get_evm_balance", "get_btc_balance", "get_utxos", "get_runes"} ->
         OnlyAddress(AddressSamples)
    [] t = "get_token_balance" ->
         {In(a, a2, Absent, NoAmount, "absent", "none", TRUE) :
            a \in {EvmAddr, JunkMid}, a2 \in {EvmAddr, JunkShort, Absent}}
    [] t \in {"read_contract", "verify_contract"} ->
         OnlyAddress({EvmAddr, JunkMid, Absent})
    [] t = "write_contract" ->
         {In(a, Absent, Absent, v, "absent", "none", TRUE) : a \in {EvmAddr, JunkMid}, v \in WeiSamples}
    [] t = "get_logs" ->
         {In(a, Absent, Absent, NoAmount, "absent", o, TRUE) :
            a \in {Absent, EvmAddr, JunkMid}, o \in {"none", "number", "negative"}}
    [] t = "get_transaction" -> OnlyId({Hex64, Junk64, JunkShort, Absent})
    [] t = "get_bridge_status" -> OnlyId({Hex64, Junk64, JunkShort, Absent})
    [] t = "get_transaction_receipt" -> OnlyId({Hash0x64, Hex64, Absent})
    [] t = "send_raw_transaction" -> OnlyId({SignedTx, Hex64, Absent})
    [] t = "convert_btc_to_evm" -> OnlyId(PublicKeySamples \cup {Hex64, Absent})
    [] t = "get_rune_erc20_address" -> OnlyId({RuneId, JunkShort, Absent})
    [] t = "deploy_contract" ->
         {In(Absent, Absent, Absent, NoAmount, "absent", o, TRUE) :
            o \in {"none", "template", "template_unknown", "source", "source_bad", "abi"}}
    [] t = "transfer_evm" ->
         {In(a, Absent, Absent, v, "absent", "none", TRUE) :
            a \in {EvmAddr, JunkMid}, v \in AmountSamples \cup {NoAmount}}
    [] t = "transfer_token" ->
         {In(a, a2, Absent, v, "absent", "none", TRUE) :
            a \in {EvmAddr, JunkMid}, a2 \in {EvmAddr, Absent}, v \in {Amt("num", 1, 0), Amt("text", 0, 0)}}
    [] t = "estimate_gas" ->
         {In(a, Absent, Absent, v, "absent", "none", TRUE) :
            a \in {EvmAddr, JunkMid}, v \in {NoAmount, Amt("num", 1, 0), Amt("text", 0, 0)}}
    [] t = "get_rune_balance" ->
         {In(a, Absent, i, NoAmount, "absent", "none", TRUE) :
            a \in {Absent, Bech32Addr, JunkShort}, i \in {RuneId, JunkShort}}
    [] t = "transfer_rune" ->
         {In(a, Absent, i, v, "absent", "none", TRUE) :
            a \in {Bech32Addr, JunkShort, Absent}, i \in {RuneId, JunkShort},
            v \in {Amt("num", 1, 0), Amt("num", 15, 1), NoAmount}}
    [] t \in {"bridge_rune_to_erc20", "bridge_erc20_to_rune"} ->
         {In(Absent, Absent, i, v, "absent", "none", TRUE) :
            i \in {RuneId, JunkShort}, v \in {Amt("num", 1, 0), Amt("num", 15, 1), NoAmount}}
    [] t = "bridge_btc_to_evm" ->
         {In(Absent, Absent, Absent, v, u, "none", TRUE) :
            v \in BridgeAmountSamples \cup {NoAmount}, u \in {"absent", "btc", "satoshis", "wei"}}
    [] t = "bridge_evm_to_btc" ->
         {In(a, Absent, Absent, v, u, "none", TRUE) :
            a \in {Bech32Addr, TaprootAddr, LegacyAddr, JunkMid},
            v \in BridgeAmountSamples \cup {NoAmount}, u \in {"absent", "btc", "satoshis"}}

----------------------------------------------------------------------------
(* Plugin registry (plugins/index.ts) and startup (index.ts) *)

\* a constructor that registers the bare config.name
ToolName_unprefixed(configName) == <<"", configName>>

\* ToolBase constructor: this.name = `${TOOL_PREFIX}${config.name}`
ToolName(configName) == <<TOOL_PREFIX, configName>>

\* createPlugins: the plugins in order, each with the tools its constructor registers
createPlugins ==
  << [name |-> "network",  tools |-> <<"get_network_info", "get_system_contracts", "get_block">>],
     [name |-> "balance",  tools |-> <<"get_evm_balance", "get_btc_balance", "get_token_balance">>],
     [name |-> "contract", tools |-> <<"read_contract", "write_contract", "get_logs", "verify_contract">>],
     [name |-> "bitcoin",  tools |-> <<"get_utxos", "get_transaction", "get_transaction_receipt",
                                      "get_fee_rate">>],
     [name |-> "deploy",   tools |-> <<"deploy_contract">>],
     [name |-> "transfer", tools |-> <<"transfer_evm", "transfer_token", "send_raw_transaction">>],
     [name |-> "utility",  tools |-> <<"convert_btc_to_evm", "get_rune_erc20_address", "estimate_gas">>],
     [name |-> "runes",    tools |-> <<"get_runes", "get_rune_balance", "transfer_rune",
                                      "bridge_rune_to_erc20", "bridge_erc20_to_rune">>],
     [name |-> "bridge",   tools |-> <<"bridge_btc_to_evm", "bridge_evm_to_btc", "get_bridge_status">>] >>

\* PluginBase.registerTool keeps a Map keyed by tool name: a name registered
\* again replaces the earlier entry and keeps its place
RECURSIVE PluginBase_getToolMetadata(_)
PluginBase_getToolMetadata(tools) ==
  IF tools = <<>> THEN <<>>
  ELSE LET rest == PluginBase_getToolMetadata(SubSeq(tools, 1, Len(tools) - 1))
           last == ToolName(tools[Len(tools)])
       IN IF \E i \in 1..Len(rest) : rest[i] = last THEN rest ELSE Append(rest, last)

\* registerAllPlugins: server.registerTool for every tool of every plugin, in order
RECURSIVE registerAllPlugins(_)
registerAllPlugins(plugins) ==
  IF plugins = <<>> THEN <<>>
  ELSE PluginBase_getToolMetadata(Head(plugins).tools) \o registerAllPlugins(Tail(plugins))

\* privateKey.startsWith('0x') ? privateKey : `0x${privateKey}`
NormalizedKey(key) ==
  IF key.fmt = "0xhex" THEN key
  ELSE IF key.fmt = "hex" THEN Txt("0xhex", key.len + 2)
  ELSE Txt(key.fmt, key.len + 2)

\* a createWalletFromEnv that checks only that the key is set
createWalletFromEnv_unvalidated(penv) ==
  IF penv.MIDL_PRIVATE_KEY = Absent THEN "throws"
  ELSE IF getNetworkConfigThrows(penv) THEN "throws"
  ELSE NetworkName(penv)

\* createWalletFromEnv(): "throws", or the network the new MidlWalletClient
\* captured (its constructor calls getNetworkConfig)
createWalletFromEnv(penv) ==
  IF penv.MIDL_PRIVATE_KEY = Absent THEN "throws"
  ELSE IF ~IsHash0x64(NormalizedKey(penv.MIDL_PRIVATE_KEY)) THEN "throws"
  ELSE IF getNetworkConfigThrows(penv) THEN "throws"
  ELSE NetworkName(penv)

\* main(): the wallet is created; on failure the process exits with code 1;
\* an invalid MCP_TRANSPORT rejects main, whose catch exits with code 1 too;
\* otherwise the stdio server or the HTTP listener is started
Main ==
  /\ main = "startup"
  /\ LET w == createWalletFromEnv(process_env)
         t == getTransportMode(process_env)
     IN /\ sharedWallet' = IF w = "throws" THEN sharedWallet ELSE w
        /\ main' = IF w = "throws" \/ t = "throws" THEN "exited" ELSE "serving"
        /\ exitCode' = IF w = "throws" \/ t = "throws" THEN 1 ELSE exitCode
        /\ transports' = IF w = "throws" \/ t = "throws" THEN transports ELSE Append(transports, t)
        /\ registered' = IF w # "throws" /\ t = "stdio" THEN registerAllPlugins(createPlugins)
                         ELSE registered
  /\ UNCHANGED <<pc, tool, input, st, loc, calls, env, executed, rejected, threw,
                 btcWalletInstance, process_env, prev, response, chainNonce, deployments,
                 http>>

\* code running in the process assigns process.env.MIDL_PRIVATE_KEY or
\* process.env.MIDL_NETWORK while the server is serving
SetEnv(name, value) ==
  /\ main = "serving"
  /\ process_env' = [process_env EXCEPT ![name] = value]
  /\ process_env' # process_env
  /\ UNCHANGED <<pc, tool, input, st, loc, calls, env, executed, rejected, threw,
                 btcWalletInstance, main, exitCode, sharedWallet, transports, registered, prev,
                 response, chainNonce, deployments, http>>

----------------------------------------------------------------------------
(* Response formatting (plugins/response-formatter.ts, ui/card-generators.ts) *)

\* a CallToolResult: the kinds of its content items in order, and isError;
\* rejected if the handler's promise rejected instead
CallToolResult(content, isError) == [content |-> content, isError |-> isError, rejected |-> FALSE]
NoResponse == [content |-> <<>>, isError |-> FALSE, rejected |-> FALSE]
HandlerRejected == [content |-> <<>>, isError |-> FALSE, rejected |-> TRUE]

\* the keys of cardGenerators
cardGenerators ==
  {ToolName(n) : n \in
     {"get_network_info", "get_system_contracts", "get_block", "get_evm_balance",
      "get_btc_balance", "get_token_balance", "get_utxos", "bridge_btc_to_evm",
      "bridge_evm_to_btc", "bridge_rune_to_erc20", "get_runes", "get_rune_balance",
      "transfer_rune", "read_contract", "write_contract", "deploy_contract", "transfer_evm",
      "transfer_token", "estimate_gas", "convert_btc_to_evm", "get_transaction_receipt",
      "get_fee_rate", "get_logs", "get_rune_erc20_address", "send_raw_transaction"}}

\* the generators that call getNetworkConfig() for the mempool URL
MempoolCardGenerators == {ToolName(n) : n \in {"get_utxos", "get_runes", "get_rune_balance"}}

\* generateUICard: "null" if no generator is registered for the tool or the
\* result is a failure, "throws" if the generator's getNetworkConfig() throws,
\* else the card, a content item of type 'resource'
generateUICard(toolName, result, penv) ==
  IF toolName \notin cardGenerators THEN "null"
  ELSE IF ~result.success THEN "null"
  ELSE IF toolName \in MempoolCardGenerators /\ getNetworkConfigThrows(penv) THEN "throws"
  ELSE "resource"

\* formatToolResult: the JSON text of the envelope, then the card if there is one
formatToolResult(toolName, result, penv) ==
  LET uiCard == generateUICard(toolName, result, penv)
  IN IF uiCard = "throws" THEN HandlerRejected
     ELSE CallToolResult(IF uiCard = "null" THEN <<"text">> ELSE <<"text", uiCard>>,
                         ~result.success)

\* the handler registerAllPlugins registers: executeTool, then formatToolResult
Handler(toolName, result, runRejected, penv) ==
  IF runRejected THEN HandlerRejected ELSE formatToolResult(toolName, result, penv)

----------------------------------------------------------------------------
(* ToolBase.run (plugins/base/tool-base.ts) *)

InvalidInputEnvelope ==
  [success |-> FALSE, code |-> "INVALID_INPUT", details |-> "issues", suggestion |-> FALSE, data |-> NoData]

\* a run without the catch clause: the exception escapes and the promise rejects
ToolBase_run_rethrows(msg) ==
  [rejected |-> TRUE, env |-> NoEnv]

\* the catch clause of run: the exception becomes an UNKNOWN_ERROR envelope
ToolBase_run_catch(msg) ==
  [rejected |-> FALSE,
   env |-> [success |-> FALSE, code |-> "UNKNOWN_ERROR", details |-> "none",
            suggestion |-> FALSE, data |-> NoData]]

\* mark the pending calls of the log with the answer r: when the awaited
\* promise rejects or reports a non-OK status, the first pending call failed
Mark(cs, r) ==
  LET firstPending == CHOOSE i \in 1..Len(cs) : cs[i].res = "pending" /\ \A j \in 1..(i-1) : cs[j].res # "pending"
  IN [i \in 1..Len(cs) |->
        IF cs[i].res # "pending" THEN cs[i]
        ELSE IF r.res = "ok" THEN [cs[i] EXCEPT !.res = "ok", !.ans = r]
        ELSE IF i = firstPending THEN [cs[i] EXCEPT !.res = "failed", !.ans = r]
        ELSE [cs[i] EXCEPT !.res = "unknown"]]

\* the locals of execute, with process.env as it is when execute runs
Seen(l) == [l EXCEPT !.penv = process_env]

\* the state after execute reached continuation k
Settle(k, cs) ==
  /\ calls' = cs \o [i \in 1..Len(k.ops) |-> [k.ops[i] EXCEPT !.batch = Len(cs)]]
  /\ st' = k.st
  /\ loc' = [k.loc EXCEPT !.penv = NoProcessEnv]
  /\ btcWalletInstance' = k.loc.inst
  /\ pc' = IF k.k = "await" THEN "await" ELSE "done"
  /\ env' = CASE k.k = "ret"   -> k.env
              [] k.k = "throw" -> ToolBase_run_catch(k.msg).env
              [] OTHER         -> NoEnv
  /\ rejected' = (k.k = "throw" /\ ToolBase_run_catch(k.msg).rejected)
  /\ threw' = (k.k = "throw")
  /\ response' = IF k.k = "await" THEN NoResponse
                 ELSE Handler(ToolName(tool'), env', rejected', process_env)

\* a request arrives: over HTTP a new server is created for it (createServer),
\* over stdio the one server of startup handles it
Receive ==
  /\ main = "serving"
  /\ registered' = IF transports = <<"http">> THEN registerAllPlugins(createPlugins) ELSE registered
  /\ UNCHANGED <<process_env, main, exitCode, sharedWallet, transports, prev, chainNonce,
                 deployments, http>>

\* a run that ignores the outcome of safeParse
Run_ignoresParse(t, in) ==
  /\ pc = "idle"
  /\ Receive
  /\ tool' = t
  /\ input' = in
  /\ executed' = TRUE
  /\ Settle(Execute(t, "start", in, Seen(Loc0(btcWalletInstance)), NoAnswer), <<>>)

\* run(rawInput): safeParse, then execute up to its first await
Run(t, in) ==
  /\ pc = "idle"
  /\ Receive
  /\ tool' = t
  /\ input' = in
  /\ IF ~Schema(t, in)
     THEN /\ env' = InvalidInputEnvelope
          /\ pc' = "done"
          /\ executed' = FALSE
          /\ rejected' = FALSE
          /\ threw' = FALSE
          /\ response' = Handler(ToolName(t), InvalidInputEnvelope, FALSE, process_env)
          /\ UNCHANGED <<st, loc, calls, btcWalletInstance>>
     ELSE /\ executed' = TRUE
          /\ Settle(Execute(t, "start", in, Seen(Loc0(btcWalletInstance)), NoAnswer), <<>>)

\* execute resumes with the answer r to its pending call(s)
Resume(r) ==
  /\ UNCHANGED <<tool, input, executed, process_env, main, exitCode, sharedWallet,
                 transports, registered, prev>>
  /\ Settle(Execute(tool, st, input, Seen(loc), r), Mark(calls, r))

\* the upstream answers the pending call(s); execute resumes
Respond ==
  /\ pc = "await"
  /\ \E r \in Answers(calls[Len(calls)]) : Resume(r)
  /\ UNCHANGED <<chainNonce, deployments, http>>

\* no previous invocation recorded
NoPrev == [tool |-> "none", input |-> NoInput, calls |-> <<>>, env |-> NoEnv]

\* the envelope is handed to the caller; the invocation's record is dropped
Return ==
  /\ prev' = prev
  /\ pc = "done"
  /\ pc' = "idle"
  /\ tool' = "none"
  /\ input' = NoInput
  /\ st' = "none"
  /\ loc' = Loc0(btcWalletInstance)
  /\ calls' = <<>>
  /\ env' = NoEnv
  /\ executed' = FALSE
  /\ rejected' = FALSE
  /\ threw' = FALSE
  /\ response' = NoResponse
  /\ UNCHANGED <<btcWalletInstance, process_env, main, exitCode, sharedWallet, transports,
                 registered, chainNonce, deployments, http>>

\* the POST /mcp (or GET /mcp) handler of startHttp: phase is its position,
\* server the McpServer it created, headersSent res.headersSent, sent500 the
\* number of 500 responses it wrote; requests and created count the requests
\* received and the servers created since startup
HttpRequest(phase, server, headersSent, sent500, caught, requests, created) ==
  [phase |-> phase, server |-> server, headersSent |-> headersSent, sent500 |-> sent500,
   threw |-> caught, requests |-> requests, created |-> created]
NoRequest == HttpRequest("none", "none", FALSE, 0, FALSE, 0, 0)

\* values of MIDL_PRIVATE_KEY: unset, 64 hex digits, 0x + 64 hex digits,
\* 63 hex digits, 0x + 62 hex digits, 64 characters that are not hex
KeySamples == {Absent, Hex64, Hash0x64, Txt("hex", 63), Txt("0xhex", 64), Junk64}
NetworkSamples == {"", "mainnet", "regtest", "testnet"}
TransportSamples == {"", "stdio", "http", "sse"}

Init ==
  /\ pc = "idle"
  /\ tool = "none"
  /\ input = NoInput
  /\ st = "none"
  /\ loc = Loc0("null")
  /\ calls = <<>>
  /\ env = NoEnv
  /\ executed = FALSE
  /\ rejected = FALSE
  /\ threw = FALSE
  /\ btcWalletInstance = "null"
  /\ process_env \in {ProcessEnv(k, n, t) : k \in KeySamples, n \in NetworkSamples,
                                             t \in TransportSamples}
  /\ main = "startup"
  /\ exitCode = -1
  /\ sharedWallet = "undefined"
  /\ transports = <<>>
  /\ registered = <<>>
  /\ prev = NoPrev
  /\ response = NoResponse
  /\ chainNonce = 0
  /\ deployments = <<>>
  /\ http = NoRequest

Next ==
  \/ Main
  \/ \E t \in Tools : \E in \in RawInputs(t) : Run(t, in)
  \/ Respond
  \/ Return
  \/ \E k \in {Absent, Hex64} : SetEnv("MIDL_PRIVATE_KEY", k)
  \/ \E n \in NetworkSamples : SetEnv("MIDL_NETWORK", n)

Spec == Init /\ [][Next]_vars

----------------------------------------------------------------------------
(* Repeated lookups: the same read-only tool is run again with the same input *)

\* the tools whose config says destructive: true
DestructiveTools ==
  {"transfer_evm", "transfer_token", "send_raw_transaction", "write_contract", "deploy_contract",
   "transfer_rune", "bridge_rune_to_erc20", "bridge_erc20_to_rune"}

\* an annotation table that marks verify_contract read-only as well
ReadOnlyTools_withVerify ==
  {"get_network_info", "get_system_contracts", "get_block", "get_evm_balance", "get_btc_balance",
   "get_token_balance", "read_contract", "get_logs", "get_utxos", "get_transaction",
   "get_transaction_receipt", "get_fee_rate", "estimate_gas", "convert_btc_to_evm",
   "get_rune_erc20_address", "get_runes", "get_rune_balance", "get_bridge_status",
   "verify_contract"}

\* the tools whose config says readOnly: true
ReadOnlyTools ==
  {"get_network_info", "get_system_contracts", "get_block", "get_evm_balance", "get_btc_balance",
   "get_token_balance", "read_contract", "get_logs", "get_utxos", "get_transaction",
   "get_transaction_receipt", "get_fee_rate", "estimate_gas", "convert_btc_to_evm",
   "get_rune_erc20_address", "get_runes", "get_rune_balance", "get_bridge_status"}

\* a lookup is run; once one has been recorded, the same one is run again
RunLookup(t, in) ==
  /\ prev = NoPrev \/ (prev.tool = t /\ prev.input = in)
  /\ Schema(t, in)
  /\ Run(t, in)

\* the envelope is handed to the caller and the invocation is recorded
ReturnRecorded ==
  /\ pc = "done"
  /\ prev' = [tool |-> tool, input |-> input, calls |-> calls, env |-> env]
  /\ pc' = "idle"
  /\ tool' = "none"
  /\ input' = NoInput
  /\ st' = "none"
  /\ loc' = Loc0(btcWalletInstance)
  /\ calls' = <<>>
  /\ env' = NoEnv
  /\ executed' = FALSE
  /\ rejected' = FALSE
  /\ threw' = FALSE
  /\ response' = NoResponse
  /\ UNCHANGED <<btcWalletInstance, process_env, main, exitCode, sharedWallet, transports,
                 registered, chainNonce, deployments, http>>

NextRepeat ==
  \/ Main
  \/ \E t \in ReadOnlyTools : \E in \in RawInputs(t) : RunLookup(t, in)
  \/ Respond
  \/ ReturnRecorded
  \/ \E k \in {Absent, Hex64} : SetEnv("MIDL_PRIVATE_KEY", k)
  \/ \E n \in NetworkSamples : SetEnv("MIDL_NETWORK", n)

SpecRepeat == Init /\ [][NextRepeat]_vars

----------------------------------------------------------------------------
(* Deployments against the chain: getTransactionCount answers with the      *)
(* account's transaction count, which grows when a deployment is mined      *)

\* viem's getContractAddress({ from, nonce }): the CREATE address
getContractAddress(from, nonce) == [from |-> from, nonce |-> nonce]

\* a deployment whose intention was submitted; reported tells whether the tool
\* answered with a success envelope naming contractAddress
Deployment(contractAddress, reported) ==
  [contractAddress |-> contractAddress, reported |-> reported, mined |-> FALSE]

RunDeploy(in) ==
  /\ Len(deployments) < MaxDeployments
  /\ Run("deploy_contract", in)

\* the chain answers the pending call: a transaction count it reports is the
\* account's current one; a submitted deployment is noted
RespondOnChain ==
  /\ pc = "await"
  /\ \E r \in Answers(calls[Len(calls)]) :
       /\ (calls[Len(calls)].op = "getTransactionCount" /\ r.res = "ok") => r.v = chainNonce
       /\ Resume(r)
       /\ deployments' =
            IF calls[Len(calls)].op = "sendBTCTransactions" /\ r.res = "ok"
            THEN Append(deployments,
                        Deployment(getContractAddress("evmAddress", loc.nonce), env'.success))
            ELSE deployments
  /\ UNCHANGED <<chainNonce, http>>

\* the oldest submitted deployment is executed on the chain
Mine ==
  /\ chainNonce <= MaxNonce
  /\ \E i \in 1..Len(deployments) :
       /\ ~deployments[i].mined
       /\ \A j \in 1..(i-1) : deployments[j].mined
       /\ deployments' = [deployments EXCEPT ![i].mined = TRUE]
  /\ chainNonce' = chainNonce + 1
  /\ UNCHANGED <<pc, tool, input, st, loc, calls, env, executed, rejected, threw,
                 btcWalletInstance, process_env, main, exitCode, sharedWallet, transports,
                 registered, prev, response, http>>

NextDeploy ==
  \/ Main
  \/ \E in \in RawInputs("deploy_contract") : RunDeploy(in)
  \/ RespondOnChain
  \/ Return
  \/ Mine

SpecDeploy == Init /\ [][NextDeploy]_vars

----------------------------------------------------------------------------
(* HTTP transport (index.ts, startHttp): one handler run per /mcp request *)

\* the tools called over HTTP in this part of the model
HttpTools == {"get_block", "get_fee_rate", "transfer_evm"}

\* everything but http and prev
toolVars == <<pc, tool, input, st, loc, calls, env, executed, rejected, threw, btcWalletInstance,
              process_env, main, exitCode, sharedWallet, transports, registered, response,
              chainNonce, deployments>>

\* a request reaches app.post('/mcp'): createServer() and a new transport
Post ==
  /\ main = "serving" /\ transports = <<"http">>
  /\ pc = "idle"
  /\ http.phase \in {"none", "finished"}
  /\ http.requests < MaxRequests
  /\ http' = HttpRequest("connect", "open", FALSE, 0, FALSE, http.requests + 1, http.created + 1)
  /\ prev' = NoPrev
  /\ UNCHANGED toolVars

\* await server.connect(transport) resolves or rejects
Connect ==
  /\ http.phase = "connect"
  /\ \E ok \in BOOLEAN :
       http' = IF ok THEN [http EXCEPT !.phase = "handle"]
               ELSE [http EXCEPT !.phase = "catch", !.threw = TRUE]
  /\ UNCHANGED <<toolVars, prev>>

\* transport.handleRequest dispatches the tool call of the request
Dispatch(t, in) ==
  /\ http.phase = "handle"
  /\ prev = NoPrev
  /\ Run(t, in)

\* await transport.handleRequest(...) resolves, the response written, or it
\* rejects, before or after the response headers went out
HandleRequest ==
  /\ http.phase = "handle"
  /\ pc = "idle"
  /\ \/ /\ prev # NoPrev
        /\ http' = [http EXCEPT !.phase = "close", !.headersSent = TRUE]
     \/ \E sent \in BOOLEAN :
          http' = [http EXCEPT !.phase = "catch", !.threw = TRUE, !.headersSent = sent]
  /\ UNCHANGED <<toolVars, prev>>

\* await server.close(), the last statement of the try block
Close ==
  /\ http.phase = "close"
  /\ http' = [http EXCEPT !.phase = "finished", !.server = "closed"]
  /\ UNCHANGED <<toolVars, prev>>

\* the catch clause: log, and answer 500 unless the headers were sent
Catch ==
  /\ http.phase = "catch"
  /\ http' = [http EXCEPT !.phase = "finished",
                          !.sent500 = IF http.headersSent THEN @ ELSE @ + 1,
                          !.headersSent = TRUE]
  /\ UNCHANGED <<toolVars, prev>>

NextHttp ==
  \/ Main
  \/ Post
  \/ Connect
  \/ \E t \in HttpTools : \E in \in RawInputs(t) : Dispatch(t, in)
  \/ Respond
  \/ ReturnRecorded
  \/ HandleRequest
  \/ Close
  \/ Catch

SpecHttp == Init /\ [][NextHttp]_vars

----------------------------------------------------------------------------
(* Properties *)

Done == pc = "done"
Failed(c) == c.res = "failed"
SomeCallFailed == \E i \in 1..Len(calls) : Failed(calls[i])

\* C1: a raw input that violates the tool's schema yields the INVALID_INPUT
\* failure envelope with the issues as details; execute is not invoked, no
\* delegated call is made and nothing is thrown
C1_InvalidInputEnvelope ==
  (pc # "idle" /\ ~Schema(tool, input)) =>
     /\ Done
     /\ ~env.success /\ env.code = "INVALID_INPUT" /\ env.details = "issues"
     /\ ~executed /\ calls = <<>>
     /\ ~rejected /\ ~threw

C1_Witness ==
  Done /\ tool = "deploy_contract" /\ input.opt = "none" /\ ~Schema(tool, input)
       /\ env.code = "INVALID_INPUT"

\* C2: run never rejects; when it is done it holds an envelope, and an
\* exception that left execute has become a failure envelope
C2_RunNeverRejects ==
  /\ ~rejected
  /\ Done => env # NoEnv
  /\ (Done /\ threw) => (~env.success /\ env.code = "UNKNOWN_ERROR")

\* amount parsing in transfer_evm threw outside any try block
C2_Witness ==
  Done /\ threw /\ tool = "transfer_evm" /\ ParseUnitsThrows(input.amount) /\ ~env.success

\* default-address resolution in get_utxos threw outside the try block
C2_WitnessUtxos ==
  Done /\ threw /\ tool = "get_utxos" /\ input.address = Absent /\ ~env.success

BalanceLookups == {"get_evm_balance", "get_btc_balance", "get_token_balance"}

\* the caller supplied an address that is lexically no address
InvalidAddressGiven ==
  tool \in BalanceLookups /\ (SyntacticallyInvalid(input.address) \/ SyntacticallyInvalid(input.address2))

\* C3: a balance lookup called with a syntactically invalid address issues
\* no delegated call at all and ends in a failure envelope
C3_NoNetworkCallOnInvalidAddress ==
  InvalidAddressGiven => (calls = <<>> /\ (Done => ~env.success))

\* C4: a balance lookup called with a syntactically invalid address fails
\* with code INVALID_ADDRESS
C4_InvalidAddressCode ==
  (Done /\ InvalidAddressGiven) => (~env.success /\ env.code = "INVALID_ADDRESS")

\* the six categories of the adapter contract, read generously: "RPC
\* unreachable" covers both RPC codes and "not found" both not-found codes
SixCategories == {"INSUFFICIENT_FUNDS", "INVALID_ADDRESS", "RPC_CONNECTION_FAILED", "RPC_TIMEOUT",
                  "TX_REVERTED", "CONTRACT_NOT_FOUND", "RUNE_NOT_FOUND", "INVALID_INPUT"}

\* C5 as claimed: every failure envelope carries one of the six categories
C5_SixCategoriesOnly ==
  (Done /\ ~env.success) => env.code \in SixCategories

\* the codes a failed delegated call is reported under
DelegateFailureCodes == {"INSUFFICIENT_FUNDS", "RPC_CONNECTION_FAILED", "TX_REVERTED",
                         "CONTRACT_NOT_FOUND", "RUNE_NOT_FOUND", "GAS_ESTIMATION_FAILED",
                         "UNKNOWN_ERROR"}

\* C5 as amended: every failure envelope carries a code of ErrorCode or
\* INVALID_INPUT, and INVALID_INPUT only for a schema violation; a failed
\* delegated call is reported under one of DelegateFailureCodes
C5_DeclaredCodesOnly ==
  (Done /\ ~env.success) =>
     /\ env.code \in ErrorCode \cup {"INVALID_INPUT"}
     /\ (env.code = "INVALID_INPUT") <=> ~Schema(tool, input)
     /\ SomeCallFailed => env.code \in DelegateFailureCodes

\* a failed delegated call reported under a code outside the six categories
C5_Witness ==
  Done /\ ~env.success /\ SomeCallFailed /\ tool = "estimate_gas"
       /\ env.code = "GAS_ESTIMATION_FAILED"

\* C6: whenever a delegated call of the invocation failed, the invocation
\* ends in a failure envelope
C6_UpstreamFailureSurfaces ==
  (Done /\ SomeCallFailed) => ~env.success

SameCall(c, d) == c.op = d.op /\ c.target = d.target

\* call j was issued after call i had been answered
IssuedAfter(j, i) == calls[j].batch >= i

\* C7: a delegated call that failed is not issued again, and once a call has
\* failed the invocation ends in a failure envelope
C7_NoRetryThenFailure ==
  \A i \in 1..Len(calls) :
     Failed(calls[i]) =>
        /\ \A j \in 1..Len(calls) : IssuedAfter(j, i) => ~SameCall(calls[j], calls[i])
        /\ Done => ~env.success

\* the first half of C7 alone
C7_NoReissue ==
  \A i \in 1..Len(calls) :
     Failed(calls[i]) =>
        \A j \in 1..Len(calls) : IssuedAfter(j, i) => ~SameCall(calls[j], calls[i])

\* C8 as claimed: a validated invocation performs exactly one delegated call
C8_ExactlyOneCall ==
  (Done /\ executed) => Len(calls) = 1

\* the numbers of delegated calls a successful invocation of tool t makes
SuccessCalls(t) ==
  CASE t \in {"get_system_contracts", "convert_btc_to_evm", "get_rune_erc20_address"} -> {0}
    [] t \in {"get_network_info", "get_block", "get_btc_balance", "read_contract",
              "verify_contract", "get_logs", "get_transaction", "get_transaction_receipt",
              "get_fee_rate"} -> {1}
    [] t \in {"get_utxos", "get_runes", "get_rune_balance"} -> {1, 2}
    [] t \in {"get_evm_balance", "estimate_gas", "transfer_evm", "send_raw_transaction",
              "transfer_rune"} -> {2}
    [] t = "get_bridge_status" -> {2, 3}
    [] t = "transfer_token" -> {3}
    [] t = "get_token_balance" -> {4}
    [] t \in {"write_contract", "bridge_rune_to_erc20", "bridge_erc20_to_rune",
              "bridge_btc_to_evm", "bridge_evm_to_btc"} -> {5}
    [] t = "deploy_contract" -> {6}

MostCalls(t) == CHOOSE n \in SuccessCalls(t) : \A m \in SuccessCalls(t) : m <= n

\* C8 as amended: a validated invocation that succeeds has made the fixed
\* number of delegated calls of its tool (one only for the single-lookup
\* tools), and a failing one has made no more than that
C8_FixedCallCount ==
  (Done /\ executed) =>
     /\ env.success => Len(calls) \in SuccessCalls(tool)
     /\ Len(calls) <= MostCalls(tool)

C8_Witness ==
  Done /\ executed /\ env.success /\ tool = "deploy_contract" /\ Len(calls) = 6

\* C10: the intention bridge_evm_to_btc hands to the SDK names the caller's
\* btcAddress as the recipient of the withdrawal
C10_WithdrawalNamesBtcAddress ==
  tool = "bridge_evm_to_btc" =>
     \A i \in 1..Len(calls) :
        calls[i].op = "addTxIntention" => calls[i].params.recipient = input.address

\* declared field types: the admissible type tags and, for a literal union
\* or a numeral, the admissible texts ({} admits any)
Field(types, vals) == [types |-> types, vals |-> vals]
TString    == Field({"string"}, {})
TNumber    == Field({"number"}, {})
TBoolean   == Field({"boolean"}, {})
TArray     == Field({"array"}, {})
TObject    == Field({"object"}, {})
TUnknown   == Field({"string", "number", "boolean", "null", "array", "object", "unknown"}, {})
TNullable  == Field({"string", "null"}, {})
TNumeral   == Field({"string"}, {"numeral"})
TUnion(ls) == Field({"string"}, ls)

\* TxReceipt of types.ts; gasUsed is the receipt's gas as a decimal numeral
DeclaredTxReceipt ==
  [transactionHash |-> TString, blockNumber |-> TNumber, status |-> TUnion({"success", "reverted"}),
   gasUsed |-> TNumeral, explorerUrl |-> TString]

AllString(fields) == [f \in fields |-> TString]

\* the declared result type of each tool (result-types.ts where it declares
\* the type, the tool's own interface otherwise); optional fields left out
Declared(t) ==
  CASE t = "get_network_info" ->
         [chainId |-> TNumber, name |-> TString, rpcUrl |-> TString, explorerUrl |-> TString,
          mempoolUrl |-> TString, blockNumber |-> TNumber]
    [] t = "get_system_contracts" -> [array |-> TArray]
    [] t = "get_block" ->
         [number |-> TNumber, hash |-> TString, timestamp |-> TNumber, timestampFormatted |-> TString,
          transactionCount |-> TNumber, gasUsed |-> TString, gasLimit |-> TString,
          baseFeePerGas |-> TNullable, parentHash |-> TString, explorerUrl |-> TString]
    [] t = "get_evm_balance" ->
         [address |-> TString, balance |-> TString, balanceFormatted |-> TString,
          network |-> TString, blockNumber |-> TNumber]
    [] t = "get_btc_balance" ->
         AllString({"address", "balanceSatoshis", "balanceFormatted", "confirmedSatoshis",
                    "unconfirmedSatoshis", "network"})
    [] t = "get_token_balance" ->
         [tokenAddress |-> TString, ownerAddress |-> TString, balance |-> TString,
          balanceFormatted |-> TString, decimals |-> TNumber, symbol |-> TString,
          name |-> TString, network |-> TString]
    [] t = "read_contract" ->
         [contractAddress |-> TString, functionName |-> TString, result |-> TUnknown, network |-> TString]
    [] t = "write_contract" ->
         [transactionHash |-> TString, blockNumber |-> TNumber, status |-> TUnion({"success", "reverted"}),
          gasUsed |-> TNumeral, explorerUrl |-> TString, contractAddress |-> TString,
          functionName |-> TString]
    [] t = "verify_contract" ->
         [address |-> TString, verified |-> TBoolean, explorerUrl |-> TString, message |-> TString]
    [] t = "get_logs" -> [logs |-> TArray, count |-> TNumber, network |-> TString]
    [] t = "get_utxos" ->
         [address |-> TString, utxos |-> TArray, count |-> TNumber, totalValue |-> TNumber,
          network |-> TString]
    [] t = "get_transaction" ->
         [txid |-> TString, version |-> TNumber, size |-> TNumber, weight |-> TNumber, fee |-> TNumber,
          status |-> TObject, vin |-> TArray, vout |-> TArray, explorerUrl |-> TString]
    [] t = "get_transaction_receipt" ->
         [transactionHash |-> TString, blockNumber |-> TNumber, status |-> TUnion({"success", "reverted"}),
          gasUsed |-> TNumeral, explorerUrl |-> TString, from |-> TString, to |-> TNullable,
          contractAddress |-> TNullable, logs |-> TArray]
    [] t = "get_fee_rate" ->
         [fastestFee |-> TNumber, halfHourFee |-> TNumber, hourFee |-> TNumber,
          economyFee |-> TNumber, minimumFee |-> TNumber, network |-> TString]
    [] t = "deploy_contract" ->
         [contractAddress |-> TString, transactionHash |-> TString, blockNumber |-> TNumber,
          status |-> TUnion({"success", "reverted"}), gasUsed |-> TNumeral, explorerUrl |-> TString]
    [] t = "transfer_evm" ->
         [transactionHash |-> TString, blockNumber |-> TNumber, status |-> TUnion({"success", "reverted"}),
          gasUsed |-> TNumeral, explorerUrl |-> TString, from |-> TString, to |-> TString,
          amount |-> TString]
    [] t = "transfer_token" ->
         [transactionHash |-> TString, blockNumber |-> TNumber, status |-> TUnion({"success", "reverted"}),
          gasUsed |-> TNumeral, explorerUrl |-> TString, tokenAddress |-> TString, from |-> TString,
          to |-> TString, amount |-> TString]
    [] t = "send_raw_transaction" -> DeclaredTxReceipt
    [] t = "estimate_gas" ->
         AllString({"gasEstimate", "gasEstimateFormatted", "gasPriceWei", "gasPriceGwei",
                    "estimatedCostWei", "estimatedCostBtc"})
    [] t = "convert_btc_to_evm" -> AllString({"publicKey", "evmAddress"})
    [] t = "get_rune_erc20_address" -> AllString({"runeId", "erc20Address", "explorerUrl"})
    [] t = "get_runes" -> [address |-> TString, total |-> TNumber, runes |-> TArray]
    [] t = "get_rune_balance" -> AllString({"runeId", "name", "balance", "address"})
    [] t = "transfer_rune" ->
         AllString({"txId", "txHex", "runeId", "amount", "toAddress", "explorerUrl"})
    [] t \in {"bridge_rune_to_erc20", "bridge_erc20_to_rune"} ->
         AllString({"btcTxId", "btcTxHex", "runeId", "amount", "explorerUrl", "status"})
    [] t = "bridge_btc_to_evm" ->
         AllString({"btcTxId", "btcTxHex", "satoshis", "btcAmount", "explorerUrl", "status"})
    [] t = "bridge_evm_to_btc" ->
         AllString({"btcTxId", "btcTxHex", "satoshis", "btcAmount", "btcAddress", "explorerUrl",
                    "status"})
    [] t = "get_bridge_status" ->
         [btcTxId |-> TString,
          stage |-> TUnion({"pending", "btc_confirmed", "validators_processing", "evm_credited", "failed"}),
          stageDescription |-> TString, btcConfirmations |-> TNumber,
          btcBlockHeight |-> Field({"number", "null"}, {}),
          evmCredited |-> TBoolean, suggestion |-> TString, links |-> TObject]

\* the payload has every declared field, each with a value of its type
Conforms(data, decl) ==
  \A f \in DOMAIN decl :
     /\ f \in DOMAIN data
     /\ data[f].t \in decl[f].types
     /\ decl[f].vals = {} \/ data[f].v \in decl[f].vals

\* C9: every success envelope carries every field of the tool's declared
\* result type, each with a value of the declared type
C9_PayloadConformsToDeclaredType ==
  (Done /\ env.success) => Conforms(env.data, Declared(tool))

\* C9 for every tool but the three whose payload departs from its declaration
C9_OtherToolsConform ==
  (Done /\ env.success /\ tool \notin {"deploy_contract", "get_rune_balance", "write_contract"})
     => Conforms(env.data, Declared(tool))

----------------------------------------------------------------------------
(* Process-level state *)

Serving == main = "serving"

\* C11: handling a request leaves the process-level state as startup left it:
\* a request that consults the module-level BTC wallet cache finds it as it
\* was at startup (null), never a client that an earlier request created
C11_NoStateCarriedBetweenRequests ==
  loc.instSeen \in {"none", "null"}

\* C12: MIDL_PRIVATE_KEY and MIDL_NETWORK are read once, at startup: the
\* handling of a tool invocation reads neither from process.env
C12_EnvReadOnlyAtStartup ==
  loc.envRead = {}

\* 64 hexadecimal characters after an optional 0x prefix
KeyValid(key) == (key.fmt = "hex" /\ key.len = 64) \/ (key.fmt = "0xhex" /\ key.len = 66)

AtStartup == main = "startup"

SelectorsValid(penv) ==
  /\ penv.MIDL_NETWORK \in {"", "mainnet", "regtest"}
  /\ penv.MCP_TRANSPORT \in {"", "stdio", "http"}

C18_DocumentedNetworksAccepted ==
  [][(/\ AtStartup
      /\ KeyValid(process_env.MIDL_PRIVATE_KEY)
      /\ process_env.MCP_TRANSPORT \in {"", "stdio", "http"}
      /\ process_env.MIDL_NETWORK \in {"mainnet", "testnet"})
     => (/\ main' = "serving"
         /\ sharedWallet' = IF process_env.MIDL_NETWORK = "mainnet" THEN "mainnet" ELSE "regtest")]_vars

----------------------------------------------------------------------------
(* Registration *)

PluginNames == {createPlugins[i].name : i \in 1..Len(createPlugins)}

NineCategories == {"network", "balance", "transfer", "deploy", "contract", "bridge", "runes",
                   "bitcoin", "utility"}

DistinctNames(names) == \A i, j \in 1..Len(names) : names[i] = names[j] => i = j

----------------------------------------------------------------------------
(* Address derivation *)

ConvertDone == Done /\ tool = "convert_btc_to_evm" /\ IsPublicKey(input.id)

\* the address the scheme assigns to a key: a function of the encoded point only
AddressOfKey(publicKey) == [fmt |-> "evm", len |-> 42, point |-> publicKey.point]

\* what C14 promises of a conversion
ConvertedAsPromised ==
  /\ env.success
  /\ env.data.evmAddress.v = AddressOfKey(input.id)
  /\ env.data.publicKey.v = input.id
  /\ calls = <<>>
  /\ loc.envRead = {}
  /\ loc.instSeen = "none"

\* C14 (as stated): every key that matches the schema (33 or 65 bytes of
\* hex, with or without 0x) is converted
C14_EveryValidKeyConverted ==
  ConvertDone => ConvertedAsPromised

\* C14: every key that matches the schema and, when it is a 33-byte key,
\* encodes a point of the curve, is answered with success, the address being
\* a function of the key alone (no call, no read of environment or wallet
\* cache) and the payload's publicKey the input unchanged
C14_CurvePointKeyConverted ==
  (ConvertDone /\ ~(PublicKeyBytes(input.id) = 33 /\ input.id.point = 0)) => ConvertedAsPromised

\* a compressed key without 0x has been converted after the environment changed
C14_Witness ==
  /\ ConvertDone
  /\ input.id = PubKey33
  /\ env.success
  /\ process_env.MIDL_NETWORK = "testnet"

----------------------------------------------------------------------------
(* Repeated lookups *)

Answered(c) == c.res \in {"ok", "failed"}

\* the upstream answered alike in both invocations: calls both made got the
\* same answer
SameUpstream(cs, ds) ==
  \A i \in 1..Len(cs), j \in 1..Len(ds) :
     (Answered(cs[i]) /\ Answered(ds[j]) /\ SameCall(cs[i], ds[j])) => cs[i].ans = ds[j].ans

Repeated ==
  /\ Done
  /\ prev # NoPrev
  /\ tool = prev.tool
  /\ input = prev.input
  /\ SameUpstream(calls, prev.calls)

----------------------------------------------------------------------------
(* Rune balance *)

\* the runes API reports that the address holds nothing of the rune: a
\* balance of 0, or 404 ("Rune not found for address")
NotHeld(c) ==
  /\ c.op = "fetch"
  /\ c.target = "runes/balance"
  /\ c.ans \in {Ok(0, 0), Http(404)}

\* C16: get_rune_balance for a rune the address does not hold returns a
\* success envelope with balance '0'
C16_ZeroBalanceForRuneNotHeld ==
  (Done /\ tool = "get_rune_balance" /\ \E i \in 1..Len(calls) : NotHeld(calls[i]))
    => (env.success /\ env.data.balance = Lit("0"))

----------------------------------------------------------------------------
(* UI cards *)

\* C17: for every registered tool, the response built for a successful
\* result holds the JSON text of the envelope and a UI card resource
C17_SuccessHasTextAndCard ==
  (Done /\ ~rejected /\ env.success /\ \E i \in 1..Len(registered) : registered[i] = ToolName(tool))
    => response.content = <<"text", "resource">>

----------------------------------------------------------------------------
(* Intention flow of the BTC wallet *)

IntentionTools == {"bridge_btc_to_evm", "bridge_evm_to_btc", "bridge_rune_to_erc20",
                   "bridge_erc20_to_rune", "deploy_contract", "write_contract"}

IntentionSteps == <<"connect", "addTxIntention", "finalizeBTCTransaction", "signIntentions",
                    "sendBTCTransactions">>

IsIntentionStep(c) == \E i \in 1..Len(IntentionSteps) : c.op = IntentionSteps[i]

\* the steps of the flow this invocation has started, in issue order
StepsStarted == SelectSeq(calls, IsIntentionStep)

\* C20: in an intention-based operation the steps start in the order connect,
\* addTxIntention, finalizeBTCTransaction, signIntentions, sendBTCTransactions,
\* each only after the one before it succeeded; signIntentions is given the id
\* of the transaction finalizeBTCTransaction returned and sendBTCTransactions
\* that transaction's hex; once a call has failed nothing is submitted
C20_IntentionStepsInOrder ==
  (tool \in IntentionTools) =>
    LET S == StepsStarted
    IN /\ Len(S) <= Len(IntentionSteps)
       /\ \A i \in 1..Len(S) :
            /\ S[i].op = IntentionSteps[i]
            /\ i > 1 => S[i-1].res = "ok"
            /\ i = 4 => S[i].params = [txId |-> S[3].ans.v]
            /\ i = 5 => S[i].params = [btcTransaction |-> S[3].ans.w]
       /\ \A i \in 1..Len(calls) : \A j \in 1..Len(calls) :
            (calls[i].res = "failed" /\ calls[j].op = "sendBTCTransactions") => i = j

\* a bridge deposit went through with the second transaction finalize can build
C20_Witness ==
  /\ Done /\ tool = "bridge_btc_to_evm" /\ env.success
  /\ Len(StepsStarted) = 5
  /\ StepsStarted[3].ans = Ok(BtcTx(2).id, BtcTx(2).hex)
  /\ StepsStarted[4].params.txId = BtcTx(2).id
  /\ StepsStarted[5].params.btcTransaction = BtcTx(2).hex

\* signing failed in a contract write: the flow stopped there
C20_WitnessSigningFailed ==
  /\ Done /\ tool = "write_contract" /\ ~env.success
  /\ Len(StepsStarted) = 4
  /\ StepsStarted[4].res = "failed"

----------------------------------------------------------------------------
(* The cached BTC wallet *)

\* C21: every wallet getBtcWallet returns is connected: no request finds a
\* cached instance whose addresses are unset, so getBtcPaymentAddress and
\* getBtcOrdinalsAddress never fail with 'BTC wallet not connected'
C21_CachedWalletIsConnected ==
  loc.instSeen # "unconnected"

----------------------------------------------------------------------------
(* Mined receipts of EVM transfers *)

ReceiptTools == {"transfer_evm", "transfer_token", "send_raw_transaction"}

\* waitForTransactionReceipt answered with a receipt whose status is status
MinedWith(status) ==
  \E i \in 1..Len(calls) :
     /\ calls[i].op = "waitForTransactionReceipt"
     /\ calls[i].res = "ok"
     /\ ReceiptStatus(calls[i].ans.v) = Lit(status)

\* C22: transfer_evm, transfer_token and send_raw_transaction answer with a
\* success envelope, and a response with isError = false, only if the mined
\* receipt has status 'success'; a 'reverted' receipt gives TX_REVERTED
C22_SuccessOnlyIfReceiptSucceeded ==
  (Done /\ tool \in ReceiptTools) =>
     /\ (env.success \/ ~response.isError) => MinedWith("success")
     /\ MinedWith("reverted") => (~env.success /\ env.code = "TX_REVERTED")

----------------------------------------------------------------------------
(* Deployed contract addresses *)

\* C23: the contractAddress a successful deploy_contract reports is the CREATE
\* address for the nonce that deployment consumes, so no two successful
\* deployments report the same contractAddress
C23_DeployedAddressesDistinct ==
  \A i \in 1..Len(deployments) : \A j \in 1..Len(deployments) :
     (deployments[i].reported /\ deployments[j].reported /\ i # j)
        => deployments[i].contractAddress # deployments[j].contractAddress

----------------------------------------------------------------------------
(* Bridge status *)

StatusReported == Done /\ tool = "get_bridge_status" /\ env.success

\* what the upstreams answered to the status lookup now done
BtcConfirmed == calls[1].ans.v = 1
TipKnown == Len(calls) >= 2 /\ calls[2].target = "mempool/tip" /\ calls[2].res = "ok"
ConfirmationCount == IF TipKnown THEN calls[2].ans.v - calls[1].ans.w + 1 ELSE 0
EvmBalance == calls[Len(calls)].ans.v

\* C24: a successful get_bridge_status reports 'pending' exactly when the BTC
\* transaction is unconfirmed, 'btc_confirmed' exactly when it is confirmed
\* with a confirmation count below 1, 'validators_processing' exactly when the
\* count is at least 1 and the EVM balance is 0, 'evm_credited' exactly when
\* the count is at least 1 and the balance is positive; 'failed' is never
\* reported and evmCredited equals (EVM balance > 0)
C24_StageFollowsUpstream ==
  StatusReported =>
    LET stage == env.data.stage.v
    IN /\ (stage = "pending") <=> ~BtcConfirmed
       /\ (stage = "btc_confirmed") <=> (BtcConfirmed /\ ConfirmationCount < 1)
       /\ (stage = "validators_processing") <=>
             (BtcConfirmed /\ ConfirmationCount >= 1 /\ EvmBalance = 0)
       /\ (stage = "evm_credited") <=>
             (BtcConfirmed /\ ConfirmationCount >= 1 /\ EvmBalance > 0)
       /\ stage # "failed"
       /\ env.data.btcConfirmations.v = ConfirmationCount
       /\ env.data.evmCredited.v = (EvmBalance > 0)

\* confirmed one block below the tip, balance still 0
C24_Witness ==
  /\ StatusReported
  /\ ConfirmationCount = 2 /\ EvmBalance = 0
  /\ env.data.stage.v = "validators_processing"

\* confirmed in a block above the tip the API reports: the count is 0
C24_WitnessStaleTip ==
  /\ StatusReported
  /\ BtcConfirmed /\ TipKnown /\ ConfirmationCount = 0 /\ EvmBalance > 0
  /\ env.data.stage.v = "btc_confirmed"

\* the stages in the order a bridge passes through them
StageRank(stage) ==
  CASE stage = "pending" -> 1
    [] stage = "btc_confirmed" -> 2
    [] stage = "validators_processing" -> 3
    [] stage = "evm_credited" -> 4
    [] OTHER -> 0

\* two successive successful polls of the same BTC transaction
PolledAgain ==
  /\ StatusReported
  /\ prev.tool = "get_bridge_status"
  /\ prev.input = input
  /\ prev.env.success

\* the mempool API's answer about the transaction in the earlier poll holds in
\* the later one: confirmed then, confirmed in the same block now
StaysConfirmed ==
  prev.calls[1].ans.v = 1 => calls[1].ans = prev.calls[1].ans

\* C25: across successive get_bridge_status polls of one BTC transaction the
\* stage never moves back to an earlier one, provided the transaction, once
\* confirmed, stays confirmed
C25_StageNeverMovesBack ==
  (PolledAgain /\ StaysConfirmed)
     => StageRank(env.data.stage.v) >= StageRank(prev.env.data.stage.v)

----------------------------------------------------------------------------
(* Amounts of the BTC bridges *)

BtcBridgeTools == {"bridge_btc_to_evm", "bridge_evm_to_btc"}

\* the amount string denotes a strictly positive number that amounts to at
\* least one satoshi in the requested unit, a whole number if the unit is
\* satoshis
PositiveSatoshis(in) ==
  /\ in.amount.kind = "num"
  /\ in.amount.n > 0
  /\ IF UnitOf(in) = "btc" THEN FloorBtcToSat(in.amount) >= 1 ELSE in.amount.d <= 0

\* C26: the BTC bridges answer with a failure envelope, connect no BTC wallet
\* and submit no intention whenever the amount is not a strictly positive
\* whole number of satoshis (non-numeric text, zero, negative, a BTC amount
\* below one satoshi); on success the payload's satoshis field is the amount
\* handed to the wallet
C26_BadAmountRejectedBeforeConnect ==
  (tool \in BtcBridgeTools /\ Schema(tool, input)) =>
     /\ ~PositiveSatoshis(input) => (calls = <<>> /\ (Done => ~env.success))
     /\ (Done /\ env.success) =>
          \E i \in 1..Len(calls) :
             /\ calls[i].op = "addTxIntention"
             /\ env.data.satoshis = Lit(ToString(calls[i].params.satoshis))

----------------------------------------------------------------------------
(* Deposits carried by intentions *)

\* an addTxIntention whose parameters hold a deposit
CarriesDeposit(c) ==
  /\ c.op = "addTxIntention"
  /\ c.params.kind \in {"deposit", "write"}
  /\ (c.params.value.sat > 0 \/ c.params.value.rem > 0)

\* C27: in every intention that carries a BTC deposit the EVM transaction
\* value is the deposited satoshis times 10^10 wei
C27_ValueIsDepositInWei ==
  \A i \in 1..Len(calls) :
     CarriesDeposit(calls[i]) => calls[i].params.value = satoshisToWei(calls[i].params.satoshis)

----------------------------------------------------------------------------
(* Annotations *)

\* upstream operations that sign, broadcast or submit a transaction
TransactionOps ==
  {"sendTransaction", "writeContract", "sendRawTransaction", "addTxIntention",
   "finalizeBTCTransaction", "signIntentions", "sendBTCTransactions", "edictRune"}

\* a delegated call that changes state upstream: a transaction operation, or
\* the POST to the explorer's verification API
StateChanging(c) ==
  \/ c.op \in TransactionOps
  \/ (c.op = "fetch" /\ c.target = "explorer/verify")

\* C28: no tool annotated readOnly = true signs, broadcasts or submits a
\* transaction or issues a state-changing upstream request; every tool that
\* does so is annotated readOnly = false; no tool is both readOnly and
\* destructive
C28_ReadOnlyToolsOnlyRead ==
  /\ \A i \in 1..Len(calls) : StateChanging(calls[i]) => tool \notin ReadOnlyTools
  /\ ReadOnlyTools \cap DestructiveTools = {}
  /\ ReadOnlyTools \subseteq Tools

\* a read-only lookup finished after three upstream reads
C28_Witness ==
  /\ Done /\ tool \in ReadOnlyTools /\ env.success
  /\ Len(calls) = 3
  /\ \A i \in 1..Len(calls) : ~StateChanging(calls[i])

\* a tool that is not read-only posted to the explorer
C28_WitnessVerify ==
  /\ Done /\ tool = "verify_contract"
  /\ \E i \in 1..Len(calls) : StateChanging(calls[i])

----------------------------------------------------------------------------
(* HTTP requests *)

HandlerFinished == http.phase = "finished"

\* C29: over HTTP every /mcp request gets a server created for it alone, the
\* server is closed once its handler has finished, also when connecting or
\* handling threw, and a request whose handling threw before the headers were
\* sent got exactly one 500 response
C29_ServerClosedAfterRequest ==
  /\ http.created = http.requests
  /\ HandlerFinished => http.server = "closed"
  /\ HandlerFinished => http.sent500 <= 1
  /\ (HandlerFinished /\ http.sent500 = 1) => http.threw

====
